---------------------------- MODULE Spec2Model ----------------------------
(***************************************************************************)
(* A model of the physics core of proyecto-fisica-newton:                  *)
(*   - MotionSystem   (js/physics/motion.js, lines 6-286)                  *)
(*   - PhysicsEngine  (js/physics/motion.js, lines 293-592)                *)
(*   - the law simulators that drive them.                                 *)
(*                                                                         *)
(* JavaScript Numbers are modelled by exact rationals, extended with the   *)
(* three non-finite values +Infinity, -Infinity and NaN that a division by *)
(* zero produces.  A rational is a pair <<n, d>> in lowest terms with      *)
(* d > 0; <<1, 0>> is +Infinity, <<-1, 0>> is -Infinity, <<0, 0>> is NaN.  *)
(* Rounding of IEEE doubles and the sign of zero are not modelled.         *)
(***************************************************************************)
EXTENDS Integers, Sequences, FiniteSets, TLC

VARIABLES
    objects,    \* PhysicsEngine.objects: id -> body
    motion,     \* MotionSystem fields: timeScale, isPaused, lastTime
    second,     \* SecondLawSimulator fields: config, currentForce
    first,      \* FirstLawSimulator fields: isRunning, animationId, config
    third,      \* ThirdLawSimulator fields: isRunning, animationId, config,
                \* collisionOccurred, collisionForces
    forces,     \* ForceSystem.forces: id -> force
    browser,    \* the page: the animation-frame callbacks and the timers
                \* that are pending, and what Date.now() gives
    app,        \* NewtonLawsApp fields: isInitialized, simulators,
                \* currentLaw; the callbacks of its ControlSystem and the
                \* panels of its PanelSystem
    stamps,     \* what updateTime has been given so far, before and after
                \* the last operation (history, not a field of the program)
    calls,      \* number of operations performed so far (bounds the runs)
    last        \* the last operation: its name, arguments, the objects
                \* before it ran, and what it returned

vars == <<objects, motion, second, first, third, forces, browser, app,
          stamps, calls, last>>

\* the simulators, the force registry, the page and the application, which
\* the engine's own operations do not touch
sims == <<first, third, forces, browser, app>>

----------------------------------------------------------------------------
(* Number arithmetic *)

Abs(n) == IF n < 0 THEN -n ELSE n

Sign(n) == IF n > 0 THEN 1 ELSE IF n < 0 THEN -1 ELSE 0

RECURSIVE GCD(_, _)
GCD(a, b) == IF b = 0 THEN a ELSE GCD(b, a % b)

LCM(a, b) == (a \div GCD(a, b)) * b

Norm(n, d) ==
    IF d = 0 THEN <<Sign(n), 0>>
    ELSE LET g == GCD(Abs(n), Abs(d))
             s == Sign(d)
         IN  <<(s * n) \div g, (s * d) \div g>>

Rat(n) == <<n, 1>>

Frac(n, d) == Norm(n, d)

Zero == Rat(0)

One == Rat(1)

PosInf == <<1, 0>>

NegInf == <<-1, 0>>

NaN == <<0, 0>>

IsNaN(a) == a = NaN

IsFinite(a) == a[2] # 0

RNeg(a) == <<-a[1], a[2]>>

RAdd(a, b) ==
    IF IsNaN(a) \/ IsNaN(b) THEN NaN
    ELSE IF ~IsFinite(a) THEN (IF ~IsFinite(b) /\ b # a THEN NaN ELSE a)
    ELSE IF ~IsFinite(b) THEN b
    ELSE LET l == LCM(a[2], b[2])
         IN  Norm(a[1] * (l \div a[2]) + b[1] * (l \div b[2]), l)

RSub(a, b) == RAdd(a, RNeg(b))

RMul(a, b) ==
    IF IsNaN(a) \/ IsNaN(b) THEN NaN
    ELSE IF ~IsFinite(a) \/ ~IsFinite(b) THEN <<Sign(a[1]) * Sign(b[1]), 0>>
    ELSE LET g1 == GCD(Abs(a[1]), b[2])
             g2 == GCD(Abs(b[1]), a[2])
         IN  Norm((a[1] \div g1) * (b[1] \div g2),
                  (a[2] \div g2) * (b[2] \div g1))

RDiv(a, b) ==
    IF IsNaN(a) \/ IsNaN(b) THEN NaN
    ELSE IF ~IsFinite(b) THEN (IF ~IsFinite(a) THEN NaN ELSE Zero)
    ELSE IF b[1] = 0 THEN <<Sign(a[1]), 0>>
    ELSE IF ~IsFinite(a) THEN <<Sign(a[1]) * Sign(b[1]), 0>>
    ELSE RMul(a, Norm(b[2], b[1]))

\* a < b; every comparison with NaN is false
RLt(a, b) ==
    IF IsNaN(a) \/ IsNaN(b) THEN FALSE
    ELSE IF ~IsFinite(a) \/ ~IsFinite(b)
         THEN IF a = b THEN FALSE
              ELSE IF ~IsFinite(a) THEN a = NegInf
              ELSE b = PosInf
    ELSE LET l == LCM(a[2], b[2])
         IN  a[1] * (l \div a[2]) < b[1] * (l \div b[2])

RGt(a, b) == RLt(b, a)

\* a === b
REq(a, b) == ~IsNaN(a) /\ ~IsNaN(b) /\ a = b

RLe(a, b) == RLt(a, b) \/ REq(a, b)

RGe(a, b) == RLe(b, a)

\* Math.abs
RAbs(a) == <<Abs(a[1]), a[2]>>

\* Math.min, Math.max
RMin(a, b) == IF IsNaN(a) \/ IsNaN(b) THEN NaN ELSE IF RLt(b, a) THEN b ELSE a

RMax(a, b) == IF IsNaN(a) \/ IsNaN(b) THEN NaN ELSE IF RGt(b, a) THEN b ELSE a

\* the largest r with r * r <= n, found by bisection on lo..hi
RECURSIVE ISqrtIn(_, _, _)
ISqrtIn(n, lo, hi) ==
    IF lo >= hi THEN lo
    ELSE LET mid == (lo + hi + 1) \div 2
         IN  IF mid <= n \div mid THEN ISqrtIn(n, mid, hi)
             ELSE ISqrtIn(n, lo, mid - 1)

ISqrt(n) == IF n <= 0 THEN 0 ELSE ISqrtIn(n, 1, n)

IsSquare(a) ==
    /\ IsFinite(a)
    /\ a[1] >= 0
    /\ ISqrt(a[1]) * ISqrt(a[1]) = a[1]
    /\ ISqrt(a[2]) * ISqrt(a[2]) = a[2]

\* Math.sqrt, on the squares of rationals and the non-finite values; the
\* inputs of the model are chosen so that every distance is rational
RSqrt(a) ==
    IF IsNaN(a) \/ a = NegInf \/ (IsFinite(a) /\ a[1] < 0) THEN NaN
    ELSE IF a = PosInf THEN PosInf
    ELSE CHOOSE r \in {<<ISqrt(a[1]), ISqrt(a[2])>>} : RMul(r, r) = a

\* A product coef * sqrt(rad) of a rational and a root, as <<coef, rad>>;
\* the root of a square is taken, any other radicand is kept
Root(a) == IF IsSquare(a) \/ ~IsFinite(a) \/ a[1] < 0
           THEN <<RSqrt(a), One>> ELSE <<One, a>>

RootScale(m, t) == <<RMul(m, t[1]), t[2]>>

\* the sum of two such products: one term when the radicands agree
RootAdd(s, t) ==
    IF s[2] = t[2] THEN <<<<RAdd(s[1], t[1]), s[2]>>>> ELSE <<s, t>>

----------------------------------------------------------------------------
(* {x, y} vector literals *)

Vec(x, y) == [x |-> x, y |-> y]

IVec(x, y) == Vec(Rat(x), Rat(y))

\* Math.sqrt(v.x ** 2 + v.y ** 2); along an axis it is the absolute value of
\* the one component, taken without squaring it
Magnitude(v) ==
    IF v.y = Zero THEN RAbs(v.x)
    ELSE IF v.x = Zero THEN RAbs(v.y)
    ELSE RSqrt(RAdd(RMul(v.x, v.x), RMul(v.y, v.y)))

VDot(u, v) == RAdd(RMul(u.x, v.x), RMul(u.y, v.y))

----------------------------------------------------------------------------
(* Bounds and the inputs the operations are tried on *)

\* operations performed in one run
MaxCalls == 2

\* masses of 1 .. MaxMass kilograms are tried
MaxMass == 2

Masses == {Rat(k) : k \in 1..MaxMass}

CollisionTypes == {"elastic", "inelastic", "perfectly-inelastic"}

\* the types a caller may pass: the three known ones and one that is not
TypeInputs == CollisionTypes \cup {"bouncy"}

\* ThirdLawSimulator.createObjects puts A at (200, 200); B is tried in
\* contact on the right (distance 30), on the left, on a 3-4-5 diagonal,
\* exactly on A, and out of contact
PositionsA == {IVec(200, 200)}

PositionsB == {IVec(230, 200), IVec(170, 200), IVec(203, 204),
               IVec(200, 200), IVec(260, 200)}

VelocitiesA == {IVec(5, 0), IVec(0, 0), IVec(-3, 4)}

VelocitiesB == {IVec(-3, 0), IVec(3, 0), IVec(0, -2)}

\* a body for the integrators: where SecondLawSimulator creates it, and
\* touching the right wall (x + radius = 800)
TestPositions == {IVec(150, 200), IVec(785, 200)}

TestVelocities == {IVec(0, 0), IVec(6, -3)}

Forces == {IVec(20, 0), IVec(-6, 12)}

DeltaTimes == {One, Frac(1, 2)}

\* below, inside and above the range of setTimeScale
ScaleInputs == {Frac(1, 20), Rat(2), Rat(7)}

\* bodies at and beyond each wall of the 800 x 400 canvas, in a corner and
\* in the open, with the radii the simulators give their bodies
BoundaryXs == {-5, 10, 15, 400, 785, 790, 810}

BoundaryYs == {-5, 15, 200, 385, 395}

BoundaryVelocities == {IVec(6, -3), IVec(-10, 5), IVec(0, 0)}

Radii == {Rat(15), Rat(20)}

\* the coefficients of ice, of wood and of sand
Coefficients == {Frac(1, 100), Frac(1, 5), Frac(9, 10)}

\* a body sliding fast, one sliding slowly and one moving up
FrictionVelocities == {IVec(10, 0), Vec(Frac(1, 25), Zero), IVec(0, -3)}

\* a step of applyInertia multiplies the denominators of a body's
\* coordinates by up to 360000: it is followed only on bodies whose
\* coordinates have denominators up to this one
MaxDenominator == 5

\* what performance.now() gives when a frame runs: milliseconds, 50 ms apart
MaxFrameTicks == 2

FrameTimes == {Rat(50 * k) : k \in 1..MaxFrameTicks}

\* what the panels pass to ThirdLawSimulator.updateConfig
ThirdConfigInputs == {[collisionType |-> "inelastic"], [objectAMass |-> Rat(2)]}

\* what the panels pass to FirstLawSimulator.updateConfig
SurfaceInputs == {"sand", "ice"}

VelocityInputs == {Rat(5)}

\* the forces a registry is filled with, and an id that is never created
ForceIds == {"push", "lift"}

UnknownIds == {"ghost"}

Magnitudes == {Rat(10)}

Directions == {0, 90}

\* ids passed to calculateNetForce in one call
MaxActive == 2

IdLists == UNION {[1..n -> ForceIds \cup UnknownIds] : n \in 0..MaxActive}

\* Date.now() is read at these times, in milliseconds
MaxClockTicks == 2

ClockTimes == {50 * k : k \in 0..MaxClockTicks}

\* what a caller writes into the duration of a force, in milliseconds
Durations == {Rat(100), PosInf}

\* the durations passed to applyTemporaryForce, in milliseconds, and how
\* many of its timers may be pending at once
TimeoutInputs == {50, 100}

MaxTimers == 2

\* the Numbers that are no finite value
NonFiniteInputs == {NaN, PosInf, NegInf}

\* what a caller may pass as objectMass: the slider's values and values
\* no body can have
MassInputs == {Rat(0), Rat(-1), Rat(2)}

ForceInputs == {Rat(50)}

DirectionInputs == {90}

\* timestamps in milliseconds, 50 ms apart
MaxTicks == 4

Timestamps == {Rat(50 * k) : k \in 0..MaxTicks}

----------------------------------------------------------------------------
(* PhysicsEngine *)

NoObjects == [id \in {} |-> id]

HasObject(objs, id) == id \in DOMAIN objs

Put(objs, id, body) ==
    [i \in DOMAIN objs \cup {id} |-> IF i = id THEN body ELSE objs[i]]

Returned(objs, value) == [objects |-> objs, ret |-> <<value>>]

ReturnedNothing(objs) == [objects |-> objs, ret |-> <<>>]

\* the colour and type tags of a body are used for drawing only
createObject(objs, id, position, velocity, mass, radius) ==
    LET object == [id |-> id,
                   position |-> position,
                   velocity |-> velocity,
                   acceleration |-> Vec(Zero, Zero),
                   mass |-> mass,
                   radius |-> radius]
    IN  Returned(Put(objs, id, object), object)

speedSquared(object) ==
    RAdd(RMul(object.velocity.x, object.velocity.x),
         RMul(object.velocity.y, object.velocity.y))

\* mass * speed, the speed kept as a root when it is not rational
calculateMomentum(object) == RootScale(object.mass, Root(speedSquared(object)))

calculateKineticEnergy(object) ==
    RMul(RMul(Frac(1, 2), object.mass), speedSquared(object))

\* a slip: a receding pair is resolved like an approaching one
isSeparating_Never(relativeSpeed) == FALSE

isSeparating(relativeSpeed) == RGt(relativeSpeed, Zero)

restitutionOf(collisionType) ==
    IF collisionType = "inelastic" THEN Frac(1, 2)
    ELSE IF collisionType = "perfectly-inelastic" THEN Zero
    ELSE One

impulseOf(restitution, relativeSpeed, massA, massB) ==
    RDiv(RMul(RNeg(RAdd(One, restitution)), relativeSpeed),
         RAdd(RDiv(One, massA), RDiv(One, massB)))

impulseAOf(impulse, nx, ny) == Vec(RMul(impulse, nx), RMul(impulse, ny))

\* a slip: the reaction is given the direction of the action
impulseBOf_NotNegated(impulse, nx, ny) == impulseAOf(impulse, nx, ny)

impulseBOf(impulse, nx, ny) ==
    Vec(RMul(RNeg(impulse), nx), RMul(RNeg(impulse), ny))

\* a slip: coinciding centres are resolved like any other pair
isDegenerate_Never(distance) == FALSE

\* distance === 0: the normal has no direction
isDegenerate(distance) == REq(distance, Zero)

\* a slip: each body is moved by the whole overlap
separationOf_WholeOverlap(n, overlap) == RMul(n, overlap)

\* n * overlap * 0.5, the share of the overlap each body is moved by
separationOf(n, overlap) == RMul(RMul(n, overlap), Frac(1, 2))

applyThirdLaw(objs, objectAId, objectBId, collisionType) ==
    IF ~HasObject(objs, objectAId) \/ ~HasObject(objs, objectBId)
    THEN ReturnedNothing(objs)
    ELSE
    LET objectA == objs[objectAId]
        objectB == objs[objectBId]
        dx == RSub(objectB.position.x, objectA.position.x)
        dy == RSub(objectB.position.y, objectA.position.y)
        \* the statements of the method from its last to its first, each
        \* taking the values computed before it
        written(newA, newB, impulseA, impulseB) ==
            Returned([objs EXCEPT ![objectAId] = newA, ![objectBId] = newB],
                     [forceA |-> impulseA,
                      forceB |-> impulseB,
                      momentum |-> RootAdd(calculateMomentum(newA),
                                           calculateMomentum(newB))])
        exchanged(impulseA, impulseB, separationX, separationY, overlap) ==
            LET velocityA ==
                    Vec(RAdd(objectA.velocity.x, RDiv(impulseA.x, objectA.mass)),
                        RAdd(objectA.velocity.y, RDiv(impulseA.y, objectA.mass)))
                velocityB ==
                    Vec(RAdd(objectB.velocity.x, RDiv(impulseB.x, objectB.mass)),
                        RAdd(objectB.velocity.y, RDiv(impulseB.y, objectB.mass)))
                positionA == IF RGt(overlap, Zero)
                             THEN Vec(RSub(objectA.position.x, separationX),
                                      RSub(objectA.position.y, separationY))
                             ELSE objectA.position
                positionB == IF RGt(overlap, Zero)
                             THEN Vec(RAdd(objectB.position.x, separationX),
                                      RAdd(objectB.position.y, separationY))
                             ELSE objectB.position
            IN  written([objectA EXCEPT !.velocity = velocityA,
                                        !.position = positionA],
                        [objectB EXCEPT !.velocity = velocityB,
                                        !.position = positionB],
                        impulseA, impulseB)
        pushed(nx, ny, impulse, overlap) ==
            exchanged(impulseAOf(impulse, nx, ny), impulseBOf(impulse, nx, ny),
                      separationOf(nx, overlap), separationOf(ny, overlap),
                      overlap)
        met(nx, ny, relativeSpeed, distance) ==
            IF isSeparating(relativeSpeed) THEN ReturnedNothing(objs)
            ELSE pushed(nx, ny,
                        impulseOf(restitutionOf(collisionType), relativeSpeed,
                                  objectA.mass, objectB.mass),
                        RSub(RAdd(objectA.radius, objectB.radius), distance))
        along(nx, ny, distance) ==
            met(nx, ny,
                RAdd(RMul(RSub(objectB.velocity.x, objectA.velocity.x), nx),
                     RMul(RSub(objectB.velocity.y, objectA.velocity.y), ny)),
                distance)
        apart(distance) ==
            IF isDegenerate(distance) THEN ReturnedNothing(objs)
            ELSE along(RDiv(dx, distance), RDiv(dy, distance), distance)
    IN  apart(RSqrt(RAdd(RMul(dx, dx), RMul(dy, dy))))

\* PhysicsEngine.timeStep and MotionSystem.timeStep: 1 / 60
TimeStep == Frac(1, 60)

CanvasWidth == 800

CanvasHeight == 400

\* a slip: the body is put back at the wall with its speed undiminished
clampAxis_NoLoss(position, velocity, radius, limit) ==
    [position |-> IF RLt(RSub(position, radius), Zero) THEN radius
                  ELSE IF RGt(RAdd(position, radius), limit)
                       THEN RSub(limit, radius) ELSE position,
     velocity |-> IF RLt(RSub(position, radius), Zero)
                     \/ RGt(RAdd(position, radius), limit)
                  THEN RNeg(velocity) ELSE velocity]

\* the two tests of one axis, the second reading what the first wrote
clampAxis(position, velocity, radius, limit) ==
    LET low == RLt(RSub(position, radius), Zero)
        p1 == IF low THEN radius ELSE position
        v1 == IF low THEN RMul(RNeg(velocity), Frac(4, 5)) ELSE velocity
        high == RGt(RAdd(p1, radius), limit)
    IN  [position |-> IF high THEN RSub(limit, radius) ELSE p1,
         velocity |-> IF high THEN RMul(RNeg(v1), Frac(4, 5)) ELSE v1]

applyBoundaries(object, canvasWidth, canvasHeight) ==
    LET h == clampAxis(object.position.x, object.velocity.x,
                       object.radius, canvasWidth)
        v == clampAxis(object.position.y, object.velocity.y,
                       object.radius, canvasHeight)
    IN  [object EXCEPT !.position = Vec(h.position, v.position),
                       !.velocity = Vec(h.velocity, v.velocity)]

\* the velocity is advanced first, the position by the advanced velocity;
\* the acceleration is returned and not stored on the body
applySecondLaw(objs, objectId, force) ==
    IF ~HasObject(objs, objectId) THEN ReturnedNothing(objs)
    ELSE
    LET object == objs[objectId]
        acceleration == Vec(RDiv(force.x, object.mass),
                            RDiv(force.y, object.mass))
        velocity == Vec(RAdd(object.velocity.x, RMul(acceleration.x, TimeStep)),
                        RAdd(object.velocity.y, RMul(acceleration.y, TimeStep)))
        position == Vec(RAdd(object.position.x, RMul(velocity.x, TimeStep)),
                        RAdd(object.position.y, RMul(velocity.y, TimeStep)))
        moved == [object EXCEPT !.velocity = velocity, !.position = position]
    IN  Returned([objs EXCEPT ![objectId] =
                      applyBoundaries(moved, Rat(CanvasWidth), Rat(CanvasHeight))],
                 acceleration)

\* Math.abs(v) < 0.01 stops the component
stopComponent(v) == IF RLt(RAbs(v), Frac(1, 100)) THEN Zero ELSE v

\* the friction force is -velocity * friction * mass: proportional to the
\* velocity, without the engine's gravity
applyInertia(objs, objectId, friction) ==
    IF ~HasObject(objs, objectId) THEN objs
    ELSE
    LET object == objs[objectId]
        frictionForce ==
            Vec(RMul(RMul(RNeg(object.velocity.x), friction), object.mass),
                RMul(RMul(RNeg(object.velocity.y), friction), object.mass))
        velocity ==
            Vec(stopComponent(RAdd(object.velocity.x,
                                   RMul(RDiv(frictionForce.x, object.mass),
                                        TimeStep))),
                stopComponent(RAdd(object.velocity.y,
                                   RMul(RDiv(frictionForce.y, object.mass),
                                        TimeStep))))
        position == Vec(RAdd(object.position.x, RMul(velocity.x, TimeStep)),
                        RAdd(object.position.y, RMul(velocity.y, TimeStep)))
        moved == [object EXCEPT !.velocity = velocity, !.position = position]
    IN  [objs EXCEPT ![objectId] =
             applyBoundaries(moved, Rat(CanvasWidth), Rat(CanvasHeight))]

checkCollision(objs, objectAId, objectBId) ==
    IF ~HasObject(objs, objectAId) \/ ~HasObject(objs, objectBId) THEN FALSE
    ELSE LET objectA == objs[objectAId]
             objectB == objs[objectBId]
             dx == RSub(objectB.position.x, objectA.position.x)
             dy == RSub(objectB.position.y, objectA.position.y)
             distance == RSqrt(RAdd(RMul(dx, dx), RMul(dy, dy)))
         IN  RLt(distance, RAdd(objectA.radius, objectB.radius))

\* PhysicsEngine.clear
clear(objs) == NoObjects

----------------------------------------------------------------------------
(* MotionSystem *)

\* x = x + v*dt + 0.5*a*dt^2 with the old velocity, then v = v + a*dt
integrateMotion(m, object, netForce, deltaTime) ==
    LET dt == RMul(deltaTime, m.timeScale)
        acceleration == Vec(RDiv(netForce.x, object.mass),
                            RDiv(netForce.y, object.mass))
        half(a) == RMul(RMul(RMul(Frac(1, 2), a), dt), dt)
        position == Vec(RAdd(object.position.x,
                             RAdd(RMul(object.velocity.x, dt), half(acceleration.x))),
                        RAdd(object.position.y,
                             RAdd(RMul(object.velocity.y, dt), half(acceleration.y))))
        velocity == Vec(RAdd(object.velocity.x, RMul(acceleration.x, dt)),
                        RAdd(object.velocity.y, RMul(acceleration.y, dt)))
    IN  [object |-> [object EXCEPT !.velocity = velocity,
                                   !.position = position,
                                   !.acceleration = acceleration],
         ret |-> <<[acceleration |-> acceleration,
                    displacement |-> Vec(RSub(position.x, object.position.x),
                                         RSub(position.y, object.position.y))]>>]

\* a slip: the position rule of integrateMotion in place of Euler's
integrateEuler_HalfStep(m, object, netForce, deltaTime) ==
    [object |-> integrateMotion(m, object, netForce, deltaTime).object,
     ret |-> <<Vec(RDiv(netForce.x, object.mass),
                   RDiv(netForce.y, object.mass))>>]

\* a slip: the position is advanced by the velocity the step started with
integrateEuler_PositionFirst(m, object, netForce, deltaTime) ==
    LET dt == RMul(deltaTime, m.timeScale)
        acceleration == Vec(RDiv(netForce.x, object.mass),
                            RDiv(netForce.y, object.mass))
    IN  [object |-> [object EXCEPT
                        !.position = Vec(RAdd(object.position.x,
                                              RMul(object.velocity.x, dt)),
                                         RAdd(object.position.y,
                                              RMul(object.velocity.y, dt))),
                        !.velocity = Vec(RAdd(object.velocity.x,
                                              RMul(acceleration.x, dt)),
                                         RAdd(object.velocity.y,
                                              RMul(acceleration.y, dt))),
                        !.acceleration = acceleration],
         ret |-> <<acceleration>>]

integrateEuler(m, object, netForce, deltaTime) ==
    LET dt == RMul(deltaTime, m.timeScale)
        acceleration == Vec(RDiv(netForce.x, object.mass),
                            RDiv(netForce.y, object.mass))
        velocity == Vec(RAdd(object.velocity.x, RMul(acceleration.x, dt)),
                        RAdd(object.velocity.y, RMul(acceleration.y, dt)))
        position == Vec(RAdd(object.position.x, RMul(velocity.x, dt)),
                        RAdd(object.position.y, RMul(velocity.y, dt)))
    IN  [object |-> [object EXCEPT !.velocity = velocity,
                                   !.position = position,
                                   !.acceleration = acceleration],
         ret |-> <<acceleration>>]

\* a slip: the delta is returned without the 0.1 s limit
updateTime_Unclamped(m, currentTime) ==
    IF m.isPaused THEN [motion |-> m, ret |-> <<Zero>>]
    ELSE IF REq(m.lastTime, Zero)
    THEN [motion |-> [m EXCEPT !.lastTime = currentTime], ret |-> <<Zero>>]
    ELSE [motion |-> [m EXCEPT !.lastTime = currentTime],
          ret |-> <<RDiv(RSub(currentTime, m.lastTime), Rat(1000))>>]

updateTime(m, currentTime) ==
    IF m.isPaused THEN [motion |-> m, ret |-> <<Zero>>]
    ELSE IF REq(m.lastTime, Zero)
    THEN [motion |-> [m EXCEPT !.lastTime = currentTime], ret |-> <<Zero>>]
    ELSE LET deltaTime == RDiv(RSub(currentTime, m.lastTime), Rat(1000))
         IN  [motion |-> [m EXCEPT !.lastTime = currentTime],
              ret |-> <<RMin(deltaTime, Frac(1, 10))>>]

pause(m) == [m EXCEPT !.isPaused = TRUE]

resume(m) == [m EXCEPT !.isPaused = FALSE, !.lastTime = Zero]

setTimeScale(m, scale) ==
    [m EXCEPT !.timeScale = RMax(Frac(1, 10), RMin(scale, Rat(5)))]

----------------------------------------------------------------------------
(* SecondLawSimulator *)

\* Math.cos and Math.sin of an angle given in degrees, on the quarter turns
CosDeg(d) == IF d % 360 = 0 THEN One
             ELSE IF d % 360 = 180 THEN Rat(-1)
             ELSE CHOOSE c \in {Zero} : d % 360 \in {90, 270}

SinDeg(d) == IF d % 360 = 90 THEN One
             ELSE IF d % 360 = 270 THEN Rat(-1)
             ELSE CHOOSE c \in {Zero} : d % 360 \in {0, 180}

calculateForce(config) ==
    Vec(RMul(config.appliedForce, CosDeg(config.forceDirection)),
        RMul(config.appliedForce, SinDeg(config.forceDirection)))

\* SecondLawSimulator.createObject
createTestObject(objs, config) ==
    createObject(objs, "test-object", IVec(150, 200), IVec(0, 0),
                 config.objectMass, config.objectRadius).objects

\* setupForceApplication
forcePoint(object) == Vec(RAdd(object.position.x, Rat(30)), object.position.y)

\* Object.assign(this.config, newConfig)
Assign(config, newConfig) ==
    [k \in DOMAIN config |->
        IF k \in DOMAIN newConfig THEN newConfig[k] ELSE config[k]]

secondUpdateConfig(sim, objs, newConfig) ==
    LET config == Assign(sim.config, newConfig)
        force == IF "appliedForce" \in DOMAIN newConfig
                    \/ "forceDirection" \in DOMAIN newConfig
                 THEN calculateForce(config) ELSE sim.currentForce
    IN  [sim |-> [sim EXCEPT !.config = config, !.currentForce = force],
         objects |-> IF "objectMass" \in DOMAIN newConfig
                        /\ HasObject(objs, "test-object")
                     THEN [objs EXCEPT !["test-object"].mass = newConfig.objectMass]
                     ELSE objs]

\* update(deltaTime); the trajectory and the effects are drawing only
secondUpdate(sim, objs) ==
    IF ~HasObject(objs, "test-object")
    THEN [sim |-> sim, objects |-> objs, ret |-> <<>>]
    ELSE LET r == applySecondLaw(objs, "test-object", sim.currentForce)
         IN  [sim |-> [sim EXCEPT !.forceApplicationPoint =
                                      forcePoint(r.objects["test-object"])],
              objects |-> r.objects,
              ret |-> r.ret]

\* getInfo(); a magnitude is kept as a root when it is not rational
secondGetInfo(sim, objs) ==
    IF ~HasObject(objs, "test-object") THEN <<>>
    ELSE LET object == objs["test-object"]
         IN  <<[force |-> [x |-> sim.currentForce.x,
                           y |-> sim.currentForce.y,
                           magnitude |-> sim.config.appliedForce],
                mass |-> object.mass,
                acceleration |->
                    [x |-> object.acceleration.x,
                     y |-> object.acceleration.y,
                     magnitude |-> Root(RAdd(RMul(object.acceleration.x,
                                                  object.acceleration.x),
                                             RMul(object.acceleration.y,
                                                  object.acceleration.y)))],
                velocity |-> [x |-> object.velocity.x,
                              y |-> object.velocity.y,
                              magnitude |-> Root(speedSquared(object))]]>>

\* reset(), without the animation frame it cancels
secondReset(sim, objs) ==
    LET fresh == createTestObject(clear(objs), sim.config)
    IN  [sim |-> [sim EXCEPT !.forceApplicationPoint =
                                 forcePoint(fresh["test-object"]),
                             !.currentForce = calculateForce(sim.config)],
         objects |-> fresh]

----------------------------------------------------------------------------
(* The page: requestAnimationFrame, cancelAnimationFrame *)

\* the handle of a request: a positive number that names no pending
\* callback; the simulators use it to cancel the request and for nothing else
freshHandle(frames) ==
    CHOOSE n \in 1..(Cardinality(frames) + 1) :
        /\ \A f \in frames : f.id # n
        /\ \A k \in 1..(n - 1) : \E f \in frames : f.id = k

\* requestAnimationFrame(() => owner.animate())
requestAnimationFrame(frames, owner) ==
    [frames |-> frames \cup {[owner |-> owner, id |-> freshHandle(frames)]},
     id |-> freshHandle(frames)]

cancelAnimationFrame(frames, id) == {f \in frames : f.id # id}

\* the callbacks of a simulator that are waiting for the next frame
Pending(frames, owner) == {f \in frames : f.owner = owner}

----------------------------------------------------------------------------
(* FirstLawSimulator *)

\* FirstLawSimulator.surfaceLevel
SurfaceLevel == 350

\* surfaceFriction[surfaceType] || 0.01
surfaceFriction(surfaceType) ==
    IF surfaceType = "ice" THEN Frac(1, 100)
    ELSE IF surfaceType = "wood" THEN Frac(1, 5)
    ELSE IF surfaceType = "asphalt" THEN Frac(7, 10)
    ELSE IF surfaceType = "sand" THEN Frac(9, 10)
    ELSE Frac(1, 100)

setupSurface(config) ==
    [config EXCEPT !.frictionCoefficient = surfaceFriction(config.surfaceType)]

createSkatingObject(objs, config) ==
    createObject(objs, "skater",
                 Vec(Rat(100), RSub(Rat(SurfaceLevel), config.objectRadius)),
                 Vec(config.initialVelocity, Zero),
                 config.objectMass, config.objectRadius).objects

\* update(deltaTime): applyInertia with the fixed timeStep, whatever
\* deltaTime is, then the stop below speed 0.1
firstUpdate(sim, objs) ==
    LET stopped(moved) ==
            IF RLt(Magnitude(moved["skater"].velocity), Frac(1, 10))
            THEN [moved EXCEPT !["skater"].velocity = Vec(Zero, Zero)]
            ELSE moved
    IN  stopped(applyInertia(objs, "skater", sim.config.frictionCoefficient))

\* animate() when performance.now() gives currentTime; ret is the delta
\* updateTime returned, or nothing when the simulator is not running
firstAnimate(sim, m, objs, frames, currentTime) ==
    IF ~sim.isRunning
    THEN [sim |-> sim, motion |-> m, objects |-> objs, frames |-> frames,
          ret |-> <<>>]
    ELSE LET frame(t, requested) ==
                 [sim |-> [sim EXCEPT !.animationId = requested.id],
                  motion |-> t.motion,
                  objects |-> IF RGt(t.ret[1], Zero)
                              THEN firstUpdate(sim, objs) ELSE objs,
                  frames |-> requested.frames,
                  ret |-> <<t.ret[1]>>]
         IN  frame(updateTime(m, currentTime),
                   requestAnimationFrame(frames, "first"))

\* start(): lastTime = 0 is the simulator's own field, not MotionSystem's
firstStart(sim, m, objs, frames, currentTime) ==
    IF sim.isRunning
    THEN [sim |-> sim, motion |-> m, objects |-> objs, frames |-> frames,
          ret |-> <<>>]
    ELSE firstAnimate([sim EXCEPT !.isRunning = TRUE, !.lastTime = Zero],
                      m, objs, frames, currentTime)

\* a pause() that forgets the request without cancelling it
firstPause_KeepsRequest(sim, frames) ==
    [sim |-> [sim EXCEPT !.isRunning = FALSE, !.animationId = 0],
     frames |-> frames]

\* pause(): the request is cancelled if animationId holds a handle (null is
\* written 0)
firstPause(sim, frames) ==
    IF sim.animationId # 0
    THEN [sim |-> [sim EXCEPT !.isRunning = FALSE, !.animationId = 0],
          frames |-> cancelAnimationFrame(frames, sim.animationId)]
    ELSE [sim |-> [sim EXCEPT !.isRunning = FALSE], frames |-> frames]

firstReset(sim, objs, frames) ==
    [sim |-> [firstPause(sim, frames).sim EXCEPT
                  !.config = setupSurface(sim.config)],
     objects |-> createSkatingObject(clear(objs), sim.config),
     frames |-> firstPause(sim, frames).frames]

\* stop(): pause(), then reset()
firstStop(sim, objs, frames) ==
    firstReset(firstPause(sim, frames).sim, objs, firstPause(sim, frames).frames)

firstUpdateConfig(sim, objs, newConfig) ==
    LET assigned == Assign(sim.config, newConfig)
        config == IF "surfaceType" \in DOMAIN newConfig
                  THEN setupSurface(assigned) ELSE assigned
        withVelocity ==
            IF "initialVelocity" \in DOMAIN newConfig /\ HasObject(objs, "skater")
            THEN [objs EXCEPT !["skater"].velocity.x = newConfig.initialVelocity]
            ELSE objs
    IN  [sim |-> [sim EXCEPT !.config = config],
         objects |-> IF "objectMass" \in DOMAIN newConfig
                        /\ HasObject(objs, "skater")
                     THEN [withVelocity EXCEPT
                               !["skater"].mass = newConfig.objectMass]
                     ELSE withVelocity]

----------------------------------------------------------------------------
(* ThirdLawSimulator *)

createObjects(objs, config) ==
    LET withA == createObject(objs, "object-a", IVec(200, 200), IVec(5, 0),
                              config.objectAMass, config.objectRadius).objects
    IN  createObject(withA, "object-b", IVec(500, 200), IVec(-3, 0),
                     config.objectBMass, config.objectRadius).objects

\* a slip: the collision is resolved and the flag is left as it was
handleCollision_NoFlag(sim, objs) ==
    [sim |-> sim,
     objects |-> applyThirdLaw(objs, "object-a", "object-b",
                               sim.config.collisionType).objects]

\* handleCollision(); the effects it creates are drawing only
handleCollision(sim, objs) ==
    LET handled(r) ==
            [sim |-> IF r.ret # <<>>
                     THEN [sim EXCEPT !.collisionOccurred = TRUE,
                                      !.collisionForces =
                                          [forceA |-> r.ret[1].forceA,
                                           forceB |-> r.ret[1].forceB]]
                     ELSE [sim EXCEPT !.collisionOccurred = TRUE],
             objects |-> r.objects]
    IN  handled(applyThirdLaw(objs, "object-a", "object-b",
                              sim.config.collisionType))

\* the calls of applyInertia on the two bodies, each ending with
\* applyBoundaries
InertiaSteps == <<"applyInertia object-a", "applyBoundaries object-a",
                  "applyInertia object-b", "applyBoundaries object-b">>

\* a slip: the collision is resolved without the bodies having been found
\* to overlap
thirdUpdate_ResolveUnchecked(sim, objs) ==
    LET advanced(collide, h) ==
            [sim |-> h.sim,
             objects |-> IF ~h.sim.collisionOccurred
                         THEN applyInertia(applyInertia(h.objects, "object-a",
                                                        Frac(1, 100)),
                                           "object-b", Frac(1, 100))
                         ELSE h.objects,
             steps |-> <<"checkCollision">>
                       \o (IF collide THEN <<"applyThirdLaw">> ELSE <<>>)
                       \o (IF ~h.sim.collisionOccurred THEN InertiaSteps
                           ELSE <<>>)]
        resolved(collide) ==
            advanced(collide, IF collide THEN handleCollision(sim, objs)
                              ELSE [sim |-> sim, objects |-> objs])
    IN  resolved(~sim.collisionOccurred)

\* an update() that goes on moving the bodies once a collision was resolved
thirdUpdate_MovesAfterCollision(sim, objs) ==
    IF ~HasObject(objs, "object-a") \/ ~HasObject(objs, "object-b")
    THEN [sim |-> sim, objects |-> objs, steps |-> <<>>]
    ELSE
    LET advanced(collide, h) ==
            [sim |-> h.sim,
             objects |-> IF ~h.sim.collisionOccurred \/ sim.collisionOccurred
                         THEN applyInertia(applyInertia(h.objects, "object-a",
                                                        Frac(1, 100)),
                                           "object-b", Frac(1, 100))
                         ELSE h.objects,
             steps |-> <<"checkCollision">>
                       \o (IF collide THEN <<"applyThirdLaw">> ELSE <<>>)
                       \o (IF ~h.sim.collisionOccurred \/ sim.collisionOccurred
                           THEN InertiaSteps
                           ELSE <<>>)]
        resolved(collide) ==
            advanced(collide, IF collide THEN handleCollision(sim, objs)
                              ELSE [sim |-> sim, objects |-> objs])
    IN  resolved(checkCollision(objs, "object-a", "object-b")
                 /\ ~sim.collisionOccurred)

\* update(deltaTime); steps lists the engine's operations in the order of
\* their calls
thirdUpdate(sim, objs) ==
    IF ~HasObject(objs, "object-a") \/ ~HasObject(objs, "object-b")
    THEN [sim |-> sim, objects |-> objs, steps |-> <<>>]
    ELSE
    LET advanced(collide, h) ==
            [sim |-> h.sim,
             objects |-> IF ~h.sim.collisionOccurred
                         THEN applyInertia(applyInertia(h.objects, "object-a",
                                                        Frac(1, 100)),
                                           "object-b", Frac(1, 100))
                         ELSE h.objects,
             steps |-> <<"checkCollision">>
                       \o (IF collide THEN <<"applyThirdLaw">> ELSE <<>>)
                       \o (IF ~h.sim.collisionOccurred THEN InertiaSteps
                           ELSE <<>>)]
        resolved(collide) ==
            advanced(collide, IF collide THEN handleCollision(sim, objs)
                              ELSE [sim |-> sim, objects |-> objs])
    IN  resolved(checkCollision(objs, "object-a", "object-b")
                 /\ ~sim.collisionOccurred)

\* a slip: calculateDistance is looked for where it is defined
renderRaises_Never(objs) == FALSE

\* render(): with both bodies present it calls this.physics.calculateDistance,
\* which PhysicsEngine does not define (the method is MotionSystem's): the
\* call raises a TypeError, and render() and its caller end there
renderRaises(objs) == HasObject(objs, "object-a") /\ HasObject(objs, "object-b")

\* animate() when performance.now() gives currentTime; ret is the delta, the
\* steps of the frame and whether render() raised, or nothing when the
\* simulator is not running; the next frame is requested last
thirdAnimate(sim, m, objs, frames, currentTime) ==
    IF ~sim.isRunning
    THEN [sim |-> sim, motion |-> m, objects |-> objs, frames |-> frames,
          ret |-> <<>>]
    ELSE LET updated(t, u, requested) ==
                 IF RGt(t.ret[1], Zero) /\ renderRaises(u.objects)
                 THEN [sim |-> u.sim,
                       motion |-> t.motion,
                       objects |-> u.objects,
                       frames |-> frames,
                       ret |-> <<t.ret[1], <<"updateTime">> \o u.steps, TRUE>>]
                 ELSE [sim |-> [u.sim EXCEPT !.animationId = requested.id],
                       motion |-> t.motion,
                       objects |-> u.objects,
                       frames |-> requested.frames,
                       ret |-> <<t.ret[1], <<"updateTime">> \o u.steps, FALSE>>]
             frame(t) ==
                 updated(t, IF RGt(t.ret[1], Zero) THEN thirdUpdate(sim, objs)
                            ELSE [sim |-> sim, objects |-> objs,
                                  steps |-> <<>>],
                         requestAnimationFrame(frames, "third"))
         IN  frame(updateTime(m, currentTime))

thirdStart(sim, m, objs, frames, currentTime) ==
    IF sim.isRunning
    THEN [sim |-> sim, motion |-> m, objects |-> objs, frames |-> frames,
          ret |-> <<>>]
    ELSE thirdAnimate([sim EXCEPT !.isRunning = TRUE,
                                  !.lastTime = Zero,
                                  !.collisionOccurred = FALSE],
                      m, objs, frames, currentTime)

\* pause(): the request is cancelled if animationId holds a handle (null is
\* written 0)
thirdPause(sim, frames) ==
    IF sim.animationId # 0
    THEN [sim |-> [sim EXCEPT !.isRunning = FALSE, !.animationId = 0],
          frames |-> cancelAnimationFrame(frames, sim.animationId)]
    ELSE [sim |-> [sim EXCEPT !.isRunning = FALSE], frames |-> frames]

\* reset(); render() is its last statement: ret is whether it raised
thirdReset(sim, objs, frames) ==
    [sim |-> [thirdPause(sim, frames).sim EXCEPT !.collisionOccurred = FALSE],
     objects |-> createObjects(clear(objs), sim.config),
     frames |-> thirdPause(sim, frames).frames,
     ret |-> <<renderRaises(createObjects(clear(objs), sim.config))>>]

\* stop(): pause(), then reset()
thirdStop(sim, objs, frames) ==
    thirdReset(thirdPause(sim, frames).sim, objs, thirdPause(sim, frames).frames)

thirdUpdateConfig(sim, objs, newConfig) ==
    LET withA == IF "objectAMass" \in DOMAIN newConfig
                    /\ HasObject(objs, "object-a")
                 THEN [objs EXCEPT !["object-a"].mass = newConfig.objectAMass]
                 ELSE objs
    IN  [sim |-> [sim EXCEPT !.config = Assign(sim.config, newConfig)],
         objects |-> IF "objectBMass" \in DOMAIN newConfig
                        /\ HasObject(objs, "object-b")
                     THEN [withA EXCEPT !["object-b"].mass = newConfig.objectBMass]
                     ELSE withA]

----------------------------------------------------------------------------
(* ForceSystem *)

\* ForceSystem.gravity: 9.81
Gravity == Frac(981, 100)

\* Math.cos and Math.sin of an angle given in radians as a multiple of pi
CosPi(r) == CosDeg((r[1] * 180) \div r[2])

SinPi(r) == SinDeg((r[1] * 180) \div r[2])

\* direction * Math.PI / 180, kept as the multiple of pi; now is what
\* Date.now() gives
createForce(fs, id, magnitude, direction, type, now) ==
    Put(fs, id, [id |-> id,
                 magnitude |-> magnitude,
                 direction |-> Frac(direction, 180),
                 type |-> type,
                 active |-> TRUE,
                 duration |-> PosInf,
                 startTime |-> now])

calculateForceComponents(force) ==
    Vec(RMul(force.magnitude, CosPi(force.direction)),
        RMul(force.magnitude, SinPi(force.direction)))

\* kinetic friction: coefficient * mass * gravity against the velocity
applyFriction(object, coefficient) ==
    LET speed == Magnitude(object.velocity)
    IN  IF REq(speed, Zero) THEN Vec(Zero, Zero)
        ELSE LET frictionMagnitude ==
                     RMul(RMul(coefficient, object.mass), Gravity)
             IN  Vec(RMul(RNeg(RDiv(object.velocity.x, speed)), frictionMagnitude),
                     RMul(RNeg(RDiv(object.velocity.y, speed)), frictionMagnitude))

applyGravity(object) == Vec(Zero, RMul(object.mass, Gravity))

\* a slip: a deactivated force still counts
contributes_ThoughInactive(fs, forceId) == forceId \in DOMAIN fs

\* force && force.active
contributes(fs, forceId) == forceId \in DOMAIN fs /\ fs[forceId].active

\* activeForces.forEach from the i-th id on, netForce being the sum so far
RECURSIVE addForcesFrom(_, _, _, _)
addForcesFrom(fs, activeForces, i, netForce) ==
    IF i > Len(activeForces) THEN netForce
    ELSE addForcesFrom(fs, activeForces, i + 1,
             IF contributes(fs, activeForces[i])
             THEN LET components == calculateForceComponents(fs[activeForces[i]])
                  IN  Vec(RAdd(netForce.x, components.x),
                          RAdd(netForce.y, components.y))
             ELSE netForce)

calculateNetForce(fs, object, activeForces) ==
    LET gravity == applyGravity(object)
    IN  addForcesFrom(fs, activeForces, 1,
                      Vec(RAdd(Zero, gravity.x), RAdd(Zero, gravity.y)))

deactivateForce(fs, forceId) ==
    IF forceId \in DOMAIN fs THEN [fs EXCEPT ![forceId].active = FALSE] ELSE fs

activateForce(fs, forceId, now) ==
    IF forceId \in DOMAIN fs
    THEN [fs EXCEPT ![forceId].active = TRUE, ![forceId].startTime = now]
    ELSE fs

\* a slip: the force outlives its duration by one call
expired_After(force, currentTime) ==
    RGt(Rat(currentTime - force.startTime), force.duration)

\* elapsed >= force.duration
expired(force, currentTime) ==
    RGe(Rat(currentTime - force.startTime), force.duration)

\* updateTemporaryForces() when Date.now() gives currentTime
updateTemporaryForces(fs, currentTime) ==
    [id \in DOMAIN fs |->
        IF /\ fs[id].type = "temporary"
           /\ fs[id].duration # PosInf
           /\ expired(fs[id], currentTime)
        THEN [fs[id] EXCEPT !.active = FALSE]
        ELSE fs[id]]

removeForce(fs, forceId) == [id \in DOMAIN fs \ {forceId} |-> fs[id]]

\* the force that createForce returns, passed on as a key of the registry
\* (const forceId = this.forces.createForce(...)): the Map is keyed by the
\* id strings and compares keys by identity, so the object is the key of no
\* entry; it is written as a key that no force has as its id
ReturnedForce == "[object Object]"

\* setTimeout(callback, duration) at time now: the callback will call
\* deactivateForce(forceId)
setTimeout(timers, forceId, duration, now) ==
    timers \cup {[id |-> freshHandle(timers), due |-> now + duration,
                 forceId |-> forceId]}

\* SecondLawSimulator.applyTemporaryForce(force, duration)
applyTemporaryForce(fs, timers, force, duration, now) ==
    [forces |-> activateForce(createForce(fs, "temp-force", force.magnitude,
                                          force.direction, "temporary", now),
                              ReturnedForce, now),
     timers |-> setTimeout(timers, ReturnedForce, duration, now)]

----------------------------------------------------------------------------
(* State after construction *)

\* new MotionSystem()
NewMotion == [timeScale |-> One, isPaused |-> FALSE, lastTime |-> Zero]

\* no updateTime call yet: called says whether updateTime has run at all,
\* prev holds the timestamp of the latest call made while not paused, fresh
\* says that no such call was made since construction or the last resume()
NoStamp == [called |-> FALSE, prev |-> <<>>, fresh |-> TRUE]

NoStamps == [before |-> NoStamp, now |-> NoStamp]

\* the configuration a SecondLawSimulator is constructed with, after
\* initialize() has computed the force and its point of application
SecondConfig == [appliedForce |-> Rat(20),
                 objectMass |-> One,
                 forceDirection |-> 0,
                 objectRadius |-> Rat(15)]

NewSecond == [config |-> SecondConfig,
              currentForce |-> calculateForce(SecondConfig),
              forceApplicationPoint |-> IVec(180, 200)]

\* FirstLawSimulator.config after initialize(): setupSurface has replaced
\* the 0.1 of the constructor by the coefficient of ice
FirstConfig == [initialVelocity |-> Rat(10),
                frictionCoefficient |-> Frac(1, 100),
                surfaceType |-> "ice",
                objectMass |-> One,
                objectRadius |-> Rat(15)]

\* animationId: the handle of the latest request, 0 for null;
\* lastTime: the simulator's own field, which no method reads
NewFirst == [isRunning |-> FALSE,
             animationId |-> 0,
             lastTime |-> Zero,
             config |-> FirstConfig]

ThirdConfig == [objectAMass |-> Rat(1),
                objectBMass |-> Rat(2),
                collisionType |-> "elastic",
                objectRadius |-> Rat(20)]

NewThird == [isRunning |-> FALSE,
             animationId |-> 0,
             lastTime |-> Zero,
             collisionOccurred |-> FALSE,
             collisionForces |-> [forceA |-> Vec(Zero, Zero),
                                  forceB |-> Vec(Zero, Zero)],
             config |-> ThirdConfig]

\* no callback requested, no timer set; Date.now() counted in milliseconds
\* from the loading of the page
NewBrowser == [frames |-> {}, timers |-> {}, now |-> 0]

\* new ForceSystem(): an empty registry
NoForces == [id \in {} |-> id]

NoCall == [op |-> "none", args |-> <<>>, pre |-> NoObjects, ret |-> <<>>]

Call(op, args, pre, ret) == [op |-> op, args |-> args, pre |-> pre, ret |-> ret]

----------------------------------------------------------------------------
(* PanelSystem *)

\* {}: an object without properties
NoValues == [k \in {} |-> k]

\* Object.assign(target, source)
ObjectAssign(target, source) ==
    [k \in DOMAIN target \cup DOMAIN source |->
        IF k \in DOMAIN source THEN source[k] ELSE target[k]]

\* createInfoPanel(law, config): panels.set(law, panel)
createInfoPanel(panels, law, metrics) ==
    [k \in DOMAIN panels \cup {law} |->
        IF k = law
        THEN [law |-> law, metrics |-> metrics, values |-> NoValues,
              charts |-> NoValues]
        ELSE panels[k]]

setupInfoPanels(panels) ==
    createInfoPanel(
        createInfoPanel(
            createInfoPanel(panels, "first-law",
                            <<"velocity", "friction", "distance">>),
            "second-law", <<"force", "mass", "acceleration">>),
        "third-law", <<"force-ab", "force-ba", "momentum">>)

\* createBarChart(law, chartId, config): the chart is registered in the
\* panel of the law when there is one
createBarChart(panels, law, chartId, bars) ==
    IF law \notin DOMAIN panels THEN panels
    ELSE [panels EXCEPT ![law].charts =
              ObjectAssign(@, [c \in {chartId} |->
                                  [bars |-> bars, values |-> NoValues]])]

setupDataVisualization(panels) ==
    createBarChart(
        createBarChart(
            createBarChart(panels, "first-law", "energy-chart",
                           <<"kinetic", "potential">>),
            "second-law", "force-chart",
            <<"force", "acceleration", "velocity">>),
        "third-law", "momentum-chart",
        <<"momentum-a", "momentum-b", "total-momentum">>)

\* new PanelSystem()
NewPanelSystem == [panels |-> NoValues, isInitialized |-> FALSE]

\* PanelSystem.initialize()
panelInitialize(ps) ==
    IF ps.isInitialized THEN ps
    ELSE [panels |-> setupDataVisualization(setupInfoPanels(ps.panels)),
          isInitialized |-> TRUE]

\* updatePanelValues(law, values)
updatePanelValues(panels, law, values) ==
    IF law \notin DOMAIN panels THEN panels
    ELSE [panels EXCEPT ![law].values = ObjectAssign(@, values)]

\* updateBarChart(law, chartId, values), without the drawing of the bars
updateBarChart(panels, law, chartId, values) ==
    IF law \notin DOMAIN panels THEN panels
    ELSE IF chartId \notin DOMAIN panels[law].charts THEN panels
    ELSE [panels EXCEPT ![law].charts[chartId].values =
              ObjectAssign(@, values)]

\* stats[name] || 0 for a Number: 0 for a missing property, for 0 and NaN
orZero(stats, name) ==
    IF name \in DOMAIN stats /\ stats[name] # Zero /\ ~IsNaN(stats[name])
    THEN stats[name] ELSE Zero

\* stats[name] || 0 for a magnitude kept as a root
rootOrZero(stats, name) ==
    IF name \in DOMAIN stats /\ stats[name][1] # Zero /\ ~IsNaN(stats[name][1])
    THEN stats[name] ELSE <<Zero, One>>

\* stats[name] || 0 for a sum of such magnitudes
sumOrZero(stats, name) ==
    IF name \in DOMAIN stats
       /\ \E i \in DOMAIN stats[name] :
              stats[name][i][1] # Zero /\ ~IsNaN(stats[name][i][1])
    THEN stats[name] ELSE <<<<Zero, One>>>>

\* updateSystemStats(law, stats)
updateSystemStats(panels, law, stats) ==
    IF law \notin DOMAIN panels THEN panels
    ELSE IF law = "first"
    THEN updateBarChart(panels, law, "energy-chart",
                        [kinetic |-> orZero(stats, "kineticEnergy"),
                         potential |-> orZero(stats, "potentialEnergy")])
    ELSE IF law = "second"
    THEN updateBarChart(panels, law, "force-chart",
                        [force |-> rootOrZero(stats, "forceMagnitude"),
                         acceleration |->
                             rootOrZero(stats, "accelerationMagnitude"),
                         velocity |-> rootOrZero(stats, "velocityMagnitude")])
    ELSE IF law = "third"
    THEN updateBarChart(panels, law, "momentum-chart",
                        [k \in {"momentum-a", "momentum-b",
                                "total-momentum"} |->
                            IF k = "momentum-a"
                            THEN rootOrZero(stats, "momentumA")
                            ELSE IF k = "momentum-b"
                            THEN rootOrZero(stats, "momentumB")
                            ELSE sumOrZero(stats, "totalMomentum")])
    ELSE panels

----------------------------------------------------------------------------
(* What the simulators report to the panels *)

\* PhysicsEngine.calculatePotentialEnergy(object, groundLevel)
calculatePotentialEnergy(object, groundLevel) ==
    RMul(RMul(object.mass, Gravity), RSub(groundLevel, object.position.y))

\* FirstLawSimulator.getInfo(): <<>> for null
firstGetInfo(sim, objs) ==
    IF ~HasObject(objs, "skater") THEN <<>>
    ELSE <<[velocity |-> [x |-> objs["skater"].velocity.x,
                          y |-> objs["skater"].velocity.y,
                          magnitude |-> Root(speedSquared(objs["skater"]))],
            friction |-> sim.config.frictionCoefficient,
            distance |-> RAbs(RSub(objs["skater"].position.x, Rat(100))),
            surfaceType |-> sim.config.surfaceType,
            isMoving |-> RGt(speedSquared(objs["skater"]), Frac(1, 100))]>>

\* FirstLawSimulator.getEnergyStats()
getEnergyStats(objs) ==
    IF ~HasObject(objs, "skater")
    THEN [kinetic |-> Zero, potential |-> Zero, total |-> Zero]
    ELSE [kinetic |-> calculateKineticEnergy(objs["skater"]),
          potential |-> calculatePotentialEnergy(objs["skater"],
                                                 Rat(SurfaceLevel)),
          total |-> RAdd(calculateKineticEnergy(objs["skater"]),
                         calculatePotentialEnergy(objs["skater"],
                                                  Rat(SurfaceLevel)))]

\* SecondLawSimulator.getForceStats()
getForceStats(sim, objs) ==
    IF ~HasObject(objs, "test-object")
    THEN [forceMagnitude |-> <<Zero, One>>,
          accelerationMagnitude |-> <<Zero, One>>,
          velocityMagnitude |-> <<Zero, One>>]
    ELSE [forceMagnitude |->
              Root(RAdd(RMul(sim.currentForce.x, sim.currentForce.x),
                        RMul(sim.currentForce.y, sim.currentForce.y))),
          accelerationMagnitude |->
              Root(RAdd(RMul(objs["test-object"].acceleration.x,
                             objs["test-object"].acceleration.x),
                        RMul(objs["test-object"].acceleration.y,
                             objs["test-object"].acceleration.y))),
          velocityMagnitude |-> Root(speedSquared(objs["test-object"]))]

\* ThirdLawSimulator.getMomentumStats()
getMomentumStats(objs) ==
    IF ~HasObject(objs, "object-a") \/ ~HasObject(objs, "object-b")
    THEN [momentumA |-> <<Zero, One>>, momentumB |-> <<Zero, One>>,
          totalMomentum |-> <<<<Zero, One>>>>]
    ELSE [momentumA |-> calculateMomentum(objs["object-a"]),
          momentumB |-> calculateMomentum(objs["object-b"]),
          totalMomentum |-> RootAdd(calculateMomentum(objs["object-a"]),
                                    calculateMomentum(objs["object-b"]))]

\* ThirdLawSimulator.getInfo(): <<>> for null
thirdGetInfo(sim, objs) ==
    IF ~HasObject(objs, "object-a") \/ ~HasObject(objs, "object-b") THEN <<>>
    ELSE <<[forceAB |-> sim.collisionForces.forceA,
            forceBA |-> sim.collisionForces.forceB,
            momentum |-> getMomentumStats(objs).totalMomentum,
            momentumA |-> getMomentumStats(objs).momentumA,
            momentumB |-> getMomentumStats(objs).momentumB,
            collisionOccurred |-> sim.collisionOccurred,
            collisionType |-> sim.config.collisionType]>>

----------------------------------------------------------------------------
(* NewtonLawsApp *)

\* the keys of the three laws in NewtonLawsApp.simulators
Laws == {"first", "second", "third"}

\* what setupEventListeners registers with controlSystem.onControlChange
ControlCallbacks ==
    {<<"navigation", "law-change">>}
    \cup ({"first-law"} \X {"initial-velocity", "friction-coefficient",
                            "surface-type", "start", "reset"})
    \cup ({"second-law"} \X {"applied-force", "object-mass",
                             "force-direction", "start", "reset"})
    \cup ({"third-law"} \X {"object-a-mass", "object-b-mass",
                            "collision-type", "start", "reset"})

\* the fields the constructor sets before it calls init(); constructed says
\* whether the constructor has returned
NewApp == [constructed |-> FALSE,
           isInitialized |-> FALSE,
           simulators |-> {},
           currentLaw |-> "first",
           callbacks |-> {},
           listeners |-> {},
           panelSystem |-> NewPanelSystem,
           notifications |-> <<>>]

\* init(), called by the constructor; nothing in it is awaited.  The three
\* simulators are constructed in turn, each constructor creating its bodies
\* and rendering; an error raised on the way is caught, reported with
\* showError, and leaves the rest of init() undone.  The bodies of a
\* simulator whose constructor raised are dropped with it.
init(a, objs) ==
    LET started == [a EXCEPT !.constructed = TRUE,
                             !.panelSystem = panelInitialize(@)]
        withSecond == createTestObject(
                          createSkatingObject(objs, FirstConfig),
                          SecondConfig)
    IN  IF renderRaises(createObjects(withSecond, ThirdConfig))
        THEN [app |-> [started EXCEPT
                           !.simulators = {"first", "second"},
                           !.notifications = Append(@, "error")],
              objects |-> withSecond]
        ELSE [app |-> [started EXCEPT
                           !.simulators = Laws,
                           !.callbacks = ControlCallbacks,
                           !.listeners = {"resize", "keydown"},
                           !.isInitialized = TRUE,
                           !.notifications = Append(@, "info")],
              objects |-> createObjects(withSecond, ThirdConfig)]

\* simulator.getInfo() of the simulator registered for a law
getInfo(law, objs, f, s, t) ==
    IF law = "first" THEN firstGetInfo(f, objs)
    ELSE IF law = "second" THEN secondGetInfo(s, objs)
    ELSE thirdGetInfo(t, objs)

\* the statistics updateLawStats(law) asks the simulator for
getStats(law, objs, s) ==
    IF law = "first" THEN getEnergyStats(objs)
    ELSE IF law = "second" THEN getForceStats(s, objs)
    ELSE getMomentumStats(objs)

\* updatePanelInfo(law) and the updateLawStats(law) it ends with, info and
\* stats being what the simulator returned
updatePanelInfo(a, law, info, stats) ==
    IF law \notin a.simulators THEN a
    ELSE [a EXCEPT !.panelSystem.panels =
              updateSystemStats(
                  IF info # <<>> THEN updatePanelValues(@, law, info[1])
                  ELSE @,
                  law, stats)]

----------------------------------------------------------------------------
(* Collisions: two bodies are created in an empty engine, then applyThirdLaw
   is called on them *)

InitThirdLaw ==
    /\ objects = NoObjects
    /\ motion = NewMotion
    /\ second = NewSecond
    /\ first = NewFirst
    /\ third = NewThird
    /\ forces = NoForces
    /\ browser = NewBrowser
    /\ app = NewApp
    /\ stamps = NoStamps
    /\ calls = 0
    /\ last = NoCall

\* ThirdLawSimulator.createObjects: radius 20 for both bodies
CreateObject(id, position, velocity, mass, radius) ==
    /\ LET r == createObject(objects, id, position, velocity, mass, radius)
       IN  /\ objects' = r.objects
           /\ last' = Call("createObject", <<id>>, objects, r.ret)
    /\ UNCHANGED <<motion, second, stamps, calls, sims>>

CreateObjectA ==
    /\ ~HasObject(objects, "object-a")
    /\ \E p \in PositionsA, v \in VelocitiesA, m \in Masses :
           CreateObject("object-a", p, v, m, Rat(20))

CreateObjectB ==
    /\ ~HasObject(objects, "object-b")
    /\ \E p \in PositionsB, v \in VelocitiesB, m \in Masses :
           CreateObject("object-b", p, v, m, Rat(20))

ApplyThirdLaw ==
    /\ calls < MaxCalls
    /\ \E collisionType \in TypeInputs :
           LET r == applyThirdLaw(objects, "object-a", "object-b", collisionType)
           IN  /\ objects' = r.objects
               /\ last' = Call("applyThirdLaw", <<collisionType>>, objects, r.ret)
    /\ calls' = calls + 1
    /\ UNCHANGED <<motion, second, stamps, sims>>

NextThirdLaw == CreateObjectA \/ CreateObjectB \/ ApplyThirdLaw

SpecThirdLaw == InitThirdLaw /\ [][NextThirdLaw]_vars

----------------------------------------------------------------------------
(* What the claims about applyThirdLaw speak of *)

ThirdLawCalled == last.op = "applyThirdLaw"

BothExisted ==
    /\ ThirdLawCalled
    /\ HasObject(last.pre, "object-a")
    /\ HasObject(last.pre, "object-b")

PreA == last.pre["object-a"]

PreB == last.pre["object-b"]

PostA == objects["object-a"]

PostB == objects["object-b"]

TypePassed == last.args[1]

CentreDistance(a, b) ==
    RSqrt(RAdd(RMul(RSub(b.position.x, a.position.x),
                    RSub(b.position.x, a.position.x)),
               RMul(RSub(b.position.y, a.position.y),
                    RSub(b.position.y, a.position.y))))

\* the unit vector from the centre of a to the centre of b
CentreNormal(a, b) ==
    Vec(RDiv(RSub(b.position.x, a.position.x), CentreDistance(a, b)),
        RDiv(RSub(b.position.y, a.position.y), CentreDistance(a, b)))

DistinctCentres == BothExisted /\ CentreDistance(PreA, PreB) # Zero

PreNormal == CentreNormal(PreA, PreB)

\* the velocity of b relative to a along the normal n
NormalSpeed(a, b, n) ==
    VDot(Vec(RSub(b.velocity.x, a.velocity.x),
             RSub(b.velocity.y, a.velocity.y)), n)

\* the pair was approaching (or at relative rest) along the normal
Approaching ==
    DistinctCentres /\ RLe(NormalSpeed(PreA, PreB, PreNormal), Zero)

StrictlyApproaching ==
    DistinctCentres /\ RLt(NormalSpeed(PreA, PreB, PreNormal), Zero)

Separating ==
    DistinctCentres /\ RGt(NormalSpeed(PreA, PreB, PreNormal), Zero)

Overlapping ==
    BothExisted
    /\ RLt(CentreDistance(PreA, PreB), RAdd(PreA.radius, PreB.radius))

\* m_a * (v_a' - v_a) + m_b * (v_b' - v_b)
MomentumChange ==
    Vec(RAdd(RMul(PreA.mass, RSub(PostA.velocity.x, PreA.velocity.x)),
             RMul(PreB.mass, RSub(PostB.velocity.x, PreB.velocity.x))),
        RAdd(RMul(PreA.mass, RSub(PostA.velocity.y, PreA.velocity.y)),
             RMul(PreB.mass, RSub(PostB.velocity.y, PreB.velocity.y))))

\* 0.5 * m_a * (v_a . n)^2 + 0.5 * m_b * (v_b . n)^2
NormalKineticEnergy(a, b, n) ==
    RAdd(RMul(RMul(Frac(1, 2), a.mass),
              RMul(VDot(a.velocity, n), VDot(a.velocity, n))),
         RMul(RMul(Frac(1, 2), b.mass),
              RMul(VDot(b.velocity, n), VDot(b.velocity, n))))

VelocitiesUnchanged ==
    PostA.velocity = PreA.velocity /\ PostB.velocity = PreB.velocity

\* C1: for two bodies of positive mass with distinct centres that approach
\* along the normal, applyThirdLaw with one of the three collision types
\* leaves the vector momentum of the pair unchanged, and the two impulse
\* vectors it returns are negatives of each other.
C1_MomentumConserved ==
    (Approaching /\ TypePassed \in CollisionTypes) =>
        /\ MomentumChange = Vec(Zero, Zero)
        /\ Len(last.ret) = 1
        /\ last.ret[1].forceB = Vec(RNeg(last.ret[1].forceA.x),
                                    RNeg(last.ret[1].forceA.y))

\* a resolved collision with a non-zero impulse, on a diagonal normal
C1_Witness ==
    /\ StrictlyApproaching
    /\ TypePassed = "inelastic"
    /\ PreNormal = Vec(Frac(3, 5), Frac(4, 5))
    /\ PreA.mass # PreB.mass
    /\ PostA.velocity # PreA.velocity

\* C2: after a perfectly-inelastic applyThirdLaw on an approaching pair the
\* velocity of B relative to A along the collision normal is 0.
C2_PerfectlyInelasticNoNormalSpeed ==
    (Approaching /\ TypePassed = "perfectly-inelastic") =>
        NormalSpeed(PostA, PostB, PreNormal) = Zero

\* C3: after an elastic applyThirdLaw on an approaching pair the kinetic
\* energy of the velocity components along the normal is what it was.
C3_ElasticNormalEnergyKept ==
    (Approaching /\ TypePassed = "elastic") =>
        NormalKineticEnergy(PostA, PostB, PreNormal)
            = NormalKineticEnergy(PreA, PreB, PreNormal)

\* scenario 1: A (1 kg, radius 20, velocity (5, 0)) left of B (2 kg,
\* radius 20, velocity (-3, 0)) on one horizontal line, overlapping
ScenarioOne ==
    /\ BothExisted
    /\ PreA.mass = Rat(1) /\ PreA.radius = Rat(20)
    /\ PreA.velocity = IVec(5, 0)
    /\ PreB.mass = Rat(2) /\ PreB.radius = Rat(20)
    /\ PreB.velocity = IVec(-3, 0)
    /\ PreA.position.y = PreB.position.y
    /\ RLt(PreA.position.x, PreB.position.x)
    /\ Overlapping

\* C4: in scenario 1 an elastic applyThirdLaw gives the 1-D elastic result
\* vA'.x = -17/3 and vB'.x = 7/3, the y components unchanged.
C4_ScenarioOneElastic ==
    (ScenarioOne /\ TypePassed = "elastic") =>
        /\ PostA.velocity = Vec(Frac(-17, 3), Zero)
        /\ PostB.velocity = Vec(Frac(7, 3), Zero)

\* C5: when B recedes from A along the normal (relative normal speed > 0)
\* applyThirdLaw leaves both velocities unchanged, whatever the collision
\* type and even while the circles overlap.
C5_NoOpOnSeparation ==
    Separating => VelocitiesUnchanged

\* a receding pair whose circles still overlap
C5_Witness ==
    /\ Separating
    /\ Overlapping
    /\ TypePassed = "perfectly-inelastic"
    /\ PostA.velocity = PreA.velocity
    /\ last.ret = <<>>

\* C6: applyThirdLaw with a collision type other than the three known ones
\* does not resolve the collision: it leaves both bodies as they were and
\* returns no result.
C6_UnknownTypeRejected ==
    (StrictlyApproaching /\ TypePassed \notin CollisionTypes) =>
        /\ objects = last.pre
        /\ last.ret = <<>>

\* C18: when the centres of the two bodies coincide (distance 0),
\* applyThirdLaw resolves nothing: it returns no result and leaves the
\* positions and velocities of both bodies as they were.
C18_NoResolutionAtDistanceZero ==
    (BothExisted /\ CentreDistance(PreA, PreB) = Zero) =>
        /\ last.ret = <<>>
        /\ objects = last.pre

\* coinciding centres with a closing relative velocity
C18_Witness ==
    /\ BothExisted
    /\ PreA.position = PreB.position
    /\ PreA.velocity = IVec(5, 0)
    /\ PreB.velocity = IVec(-3, 0)
    /\ TypePassed = "elastic"
    /\ last.ret = <<>>
    /\ PostA = PreA
    /\ PostB = PreB

\* radiusA + radiusB - d, before the call
PreOverlap == RSub(RAdd(PreA.radius, PreB.radius), CentreDistance(PreA, PreB))

\* the position p moved by k times the vector n
Moved(p, n, k) == Vec(RAdd(p.x, RMul(n.x, k)), RAdd(p.y, RMul(n.y, k)))

\* C19: when applyThirdLaw resolves an approaching pair whose circles
\* overlap, A is moved by half the overlap against the normal and B by half
\* the overlap along it, after which the centre distance is radiusA + radiusB
\* and checkCollision on the pair is false; without overlap the positions
\* are unchanged.
C19_DePenetration ==
    Approaching =>
        IF RGt(PreOverlap, Zero)
        THEN /\ PostA.position =
                    Moved(PreA.position, PreNormal, RMul(Frac(-1, 2), PreOverlap))
             /\ PostB.position =
                    Moved(PreB.position, PreNormal, RMul(Frac(1, 2), PreOverlap))
             /\ CentreDistance(PostA, PostB) = RAdd(PreA.radius, PreB.radius)
             /\ ~checkCollision(objects, "object-a", "object-b")
        ELSE /\ PostA.position = PreA.position
             /\ PostB.position = PreB.position

\* an overlapping pair on a diagonal normal, pushed apart to distance 40
C19_Witness ==
    /\ StrictlyApproaching
    /\ PreNormal = Vec(Frac(3, 5), Frac(4, 5))
    /\ checkCollision(last.pre, "object-a", "object-b")
    /\ PostA.position # PreA.position
    /\ CentreDistance(PostA, PostB) = Rat(40)

----------------------------------------------------------------------------
(* Integration: a body is created, then advanced by the integrators of
   MotionSystem and by PhysicsEngine.applySecondLaw *)

\* the time scale is any value setTimeScale can have left
InitIntegrator ==
    /\ objects = NoObjects
    /\ motion \in {NewMotion} \cup {setTimeScale(NewMotion, s) : s \in ScaleInputs}
    /\ second = NewSecond
    /\ first = NewFirst
    /\ third = NewThird
    /\ forces = NoForces
    /\ browser = NewBrowser
    /\ app = NewApp
    /\ stamps = NoStamps
    /\ calls = 0
    /\ last = NoCall

CreateTestObject ==
    /\ ~HasObject(objects, "test-object")
    /\ \E p \in TestPositions, v \in TestVelocities, m \in Masses :
           CreateObject("test-object", p, v, m, Rat(15))

IntegrateEuler ==
    /\ calls < MaxCalls
    /\ HasObject(objects, "test-object")
    /\ \E netForce \in Forces, deltaTime \in DeltaTimes :
           LET r == integrateEuler(motion, objects["test-object"],
                                   netForce, deltaTime)
           IN  /\ objects' = [objects EXCEPT !["test-object"] = r.object]
               /\ last' = Call("integrateEuler", <<netForce, deltaTime>>,
                               objects, r.ret)
    /\ calls' = calls + 1
    /\ UNCHANGED <<motion, second, stamps, sims>>

IntegrateMotion ==
    /\ calls < MaxCalls
    /\ HasObject(objects, "test-object")
    /\ \E netForce \in Forces, deltaTime \in DeltaTimes :
           LET r == integrateMotion(motion, objects["test-object"],
                                    netForce, deltaTime)
           IN  /\ objects' = [objects EXCEPT !["test-object"] = r.object]
               /\ last' = Call("integrateMotion", <<netForce, deltaTime>>,
                               objects, r.ret)
    /\ calls' = calls + 1
    /\ UNCHANGED <<motion, second, stamps, sims>>

ApplySecondLaw ==
    /\ calls < MaxCalls
    /\ \E force \in Forces :
           LET r == applySecondLaw(objects, "test-object", force)
           IN  /\ objects' = r.objects
               /\ last' = Call("applySecondLaw", <<force>>, objects, r.ret)
    /\ calls' = calls + 1
    /\ UNCHANGED <<motion, second, stamps, sims>>

NextIntegrator ==
    \/ CreateTestObject
    \/ IntegrateEuler
    \/ IntegrateMotion
    \/ ApplySecondLaw

SpecIntegrator == InitIntegrator /\ [][NextIntegrator]_vars

----------------------------------------------------------------------------
(* The canvas limits: a body is created anywhere, then applyBoundaries is
   called on it *)

InitBoundary == InitThirdLaw

CreateAnywhere ==
    /\ ~HasObject(objects, "test-object")
    /\ \E x \in BoundaryXs, y \in BoundaryYs,
          v \in BoundaryVelocities, radius \in Radii :
           CreateObject("test-object", IVec(x, y), v, One, radius)

ApplyBoundaries ==
    /\ calls < MaxCalls
    /\ HasObject(objects, "test-object")
    /\ objects' = [objects EXCEPT !["test-object"] =
                       applyBoundaries(objects["test-object"],
                                       Rat(CanvasWidth), Rat(CanvasHeight))]
    /\ last' = Call("applyBoundaries", <<>>, objects, <<>>)
    /\ calls' = calls + 1
    /\ UNCHANGED <<motion, second, stamps, sims>>

NextBoundary == CreateAnywhere \/ ApplyBoundaries

SpecBoundary == InitBoundary /\ [][NextBoundary]_vars

\* the body before and after the last operation
Body0 == last.pre["test-object"]

Body1 == objects["test-object"]

Clamped == last.op = "applyBoundaries"

\* the circle of the body crosses a wall on this axis
Outside(p, radius, limit) ==
    RLt(RSub(p, radius), Zero) \/ RGt(RAdd(p, radius), limit)

\* what the claim says of one axis: out of bounds, one radius from the wall
\* crossed and -0.8 times the velocity; in bounds, as before
AxisReflected(p0, v0, p1, v1, radius, limit) ==
    IF Outside(p0, radius, limit)
    THEN /\ p1 = (IF RLt(RSub(p0, radius), Zero) THEN radius
                  ELSE RSub(limit, radius))
         /\ v1 = RMul(Frac(-4, 5), v0)
         /\ RAbs(v1) = RMul(Frac(4, 5), RAbs(v0))
    ELSE p1 = p0 /\ v1 = v0

\* C13: applyBoundaries treats each axis by itself: where the circle crosses
\* a wall the position becomes one radius from that wall and the velocity
\* component -0.8 times what it was; an axis within bounds keeps both; both
\* axes can reflect in one call.
C13_BoundaryReflection ==
    Clamped =>
        /\ AxisReflected(Body0.position.x, Body0.velocity.x,
                         Body1.position.x, Body1.velocity.x,
                         Body0.radius, Rat(CanvasWidth))
        /\ AxisReflected(Body0.position.y, Body0.velocity.y,
                         Body1.position.y, Body1.velocity.y,
                         Body0.radius, Rat(CanvasHeight))
        /\ Body1.mass = Body0.mass /\ Body1.radius = Body0.radius

\* a body in the bottom right corner: both axes reflect in one call
C13_Witness ==
    /\ Clamped
    /\ Body0.position = IVec(790, 395)
    /\ Body0.velocity = IVec(6, -3)
    /\ Body0.radius = Rat(15)
    /\ Body1.position = IVec(785, 385)
    /\ Body1.velocity = Vec(Frac(-24, 5), Frac(12, 5))

----------------------------------------------------------------------------
(* ForceSystem: forces are created, switched off and on and removed, and the
   net force on a body is asked for *)

InitForces ==
    /\ objects \in {createObject(NoObjects, "test-object", IVec(150, 200),
                                  IVec(0, 0), m, Rat(15)).objects : m \in Masses}
    /\ motion = NewMotion
    /\ second = NewSecond
    /\ first = NewFirst
    /\ third = NewThird
    /\ forces = NoForces
    /\ browser = NewBrowser
    /\ app = NewApp
    /\ stamps = NoStamps
    /\ calls = 0
    /\ last = NoCall

CreateForce ==
    /\ \E id \in ForceIds, magnitude \in Magnitudes, direction \in Directions :
           /\ forces' = createForce(forces, id, magnitude, direction, "constant",
                                    browser.now)
           /\ last' = Call("createForce", <<id>>, objects, <<forces'[id]>>)
    /\ UNCHANGED <<objects, motion, second, first, third, stamps, calls,
                 browser, app>>

DeactivateForce ==
    /\ \E id \in ForceIds \cup UnknownIds :
           /\ forces' = deactivateForce(forces, id)
           /\ last' = Call("deactivateForce", <<id>>, objects, <<>>)
    /\ UNCHANGED <<objects, motion, second, first, third, stamps, calls,
                 browser, app>>

ActivateForce ==
    /\ \E id \in ForceIds \cup UnknownIds :
           /\ forces' = activateForce(forces, id, browser.now)
           /\ last' = Call("activateForce", <<id>>, objects, <<>>)
    /\ UNCHANGED <<objects, motion, second, first, third, stamps, calls,
                 browser, app>>

RemoveForce ==
    /\ \E id \in ForceIds \cup UnknownIds :
           /\ forces' = removeForce(forces, id)
           /\ last' = Call("removeForce", <<id>>, objects, <<>>)
    /\ UNCHANGED <<objects, motion, second, first, third, stamps, calls,
                 browser, app>>

\* gravityEnabled is what the caller wants of gravity; calculateNetForce has
\* no parameter for it
CalculateNetForce ==
    /\ \E activeForces \in IdLists, gravityEnabled \in BOOLEAN :
           last' = Call("calculateNetForce", <<activeForces, gravityEnabled>>,
                        objects,
                        <<calculateNetForce(forces, objects["test-object"],
                                            activeForces)>>)
    /\ UNCHANGED <<objects, motion, second, first, third, forces, stamps, calls,
                 browser, app>>

NextForces ==
    \/ CreateForce
    \/ DeactivateForce
    \/ ActivateForce
    \/ RemoveForce
    \/ CalculateNetForce

SpecForces == InitForces /\ [][NextForces]_vars

----------------------------------------------------------------------------
(* ForceSystem over time: forces are created, a caller gives them a
   duration, time passes, and updateTemporaryForces is called *)

\* time passes
Tick ==
    /\ \E now \in ClockTimes :
           /\ now > browser.now
           /\ browser' = [browser EXCEPT !.now = now]
    /\ last' = Call("tick", <<>>, objects, <<>>)
    /\ UNCHANGED <<objects, motion, second, first, third, forces, stamps, calls,
                   app>>

CreateTemporaryForce ==
    /\ \E id \in ForceIds, magnitude \in Magnitudes :
           /\ forces' = createForce(forces, id, magnitude, 0, "temporary",
                                    browser.now)
           /\ last' = Call("createForce", <<id>>, objects, <<forces'[id]>>)
    /\ UNCHANGED <<objects, motion, second, first, third, browser, stamps,
                   calls, app>>

\* the caller writes the duration of the force that createForce returned,
\* which is the registry's own object
SetDuration ==
    /\ \E id \in DOMAIN forces, duration \in Durations :
           /\ forces' = [forces EXCEPT ![id].duration = duration]
           /\ last' = Call("setDuration", <<id, duration>>, objects, <<>>)
    /\ UNCHANGED <<objects, motion, second, first, third, browser, stamps,
                   calls, app>>

\* the registry before the call is kept with the call
UpdateTemporaryForces ==
    /\ forces' = updateTemporaryForces(forces, browser.now)
    /\ last' = Call("updateTemporaryForces", <<browser.now, forces>>, objects,
                    <<>>)
    /\ UNCHANGED <<objects, motion, second, first, third, browser, stamps,
                   calls, app>>

NextTemporary ==
    \/ Tick
    \/ CreateForce
    \/ CreateTemporaryForce
    \/ SetDuration
    \/ UpdateTemporaryForces
    \/ ActivateForce
    \/ DeactivateForce

SpecTemporary == InitForces /\ [][NextTemporary]_vars

\* what the claim says of one force when the call is made at currentTime
AfterUpdate(force, currentTime) ==
    IF /\ force.type = "temporary"
       /\ IsFinite(force.duration)
       /\ currentTime - force.startTime >= force.duration[1]
    THEN [force EXCEPT !.active = FALSE]
    ELSE force

\* C23: a temporary force with a finite duration stays active as time
\* passes until updateTemporaryForces is called; a call made when the time
\* elapsed since startTime is >= the duration sets its active flag to false;
\* constant forces, forces of infinite duration and temporary forces with
\* elapsed < duration are left unchanged by the call.
C23_DeactivatedOnlyByTheCall ==
    [][/\ last'.op = "tick" => forces' = forces
       /\ last'.op = "updateTemporaryForces" =>
              /\ DOMAIN forces' = DOMAIN forces
              /\ \A id \in DOMAIN forces :
                     forces'[id] = AfterUpdate(forces[id], browser.now)]_vars

\* one call at the very end of a duration: the temporary force that was
\* active is deactivated, a constant force of the same age and duration is
\* left active
C23_Witness ==
    /\ last.op = "updateTemporaryForces"
    /\ \E id \in DOMAIN forces, other \in DOMAIN forces :
           /\ last.args[2][id].type = "temporary"
           /\ last.args[2][id].active
           /\ last.args[2][id].duration = Rat(last.args[1] - forces[id].startTime)
           /\ ~forces[id].active
           /\ forces[other].type = "constant"
           /\ forces[other].duration = forces[id].duration
           /\ forces[other].startTime = forces[id].startTime
           /\ forces[other].active

NetForceCalled == last.op = "calculateNetForce"

IdsPassed == last.args[1]

GravityEnabled == last.args[2]

NetForceReturned == last.ret[1]

\* how often the id occurs in the list
Occurrences(ids, id) == Cardinality({i \in 1..Len(ids) : ids[i] = id})

\* the components of a registered, active force, once for each time its id
\* was passed; nothing for any other id
Contribution(id) ==
    IF id \in DOMAIN forces /\ forces[id].active
    THEN LET k == Rat(Occurrences(IdsPassed, id))
         IN  Vec(RMul(k, RMul(forces[id].magnitude, CosPi(forces[id].direction))),
                 RMul(k, RMul(forces[id].magnitude, SinPi(forces[id].direction))))
    ELSE Vec(Zero, Zero)

RECURSIVE SumOfContributions(_)
SumOfContributions(ids) ==
    IF ids = {} THEN Vec(Zero, Zero)
    ELSE LET id == CHOOSE i \in ids : TRUE
             rest == SumOfContributions(ids \ {id})
         IN  Vec(RAdd(Contribution(id).x, rest.x),
                 RAdd(Contribution(id).y, rest.y))

Reversed(ids) == [i \in 1..Len(ids) |-> ids[Len(ids) + 1 - i]]

\* C16 as stated: calculateNetForce returns gravity (0, mass * g) only when
\* gravity is enabled, plus the components of the forces passed that are
\* registered and active; other ids add nothing and the order of the ids
\* does not matter.
C16_GravityOnlyWhenEnabled ==
    NetForceCalled =>
        LET gravity == IF GravityEnabled
                       THEN Vec(Zero, RMul(Body0.mass, Gravity))
                       ELSE Vec(Zero, Zero)
            sum == SumOfContributions(ForceIds \cup UnknownIds)
        IN  NetForceReturned = Vec(RAdd(gravity.x, sum.x), RAdd(gravity.y, sum.y))

\* C16, amended: calculateNetForce returns gravity (0, mass * 9.81) in every
\* call, plus the components of each force passed that is registered and
\* active, once for each occurrence of its id in the list; deactivated,
\* removed and unknown ids add nothing, the registry is left as it was and
\* the order of the ids does not matter.
C16_GravityAlways ==
    NetForceCalled =>
        LET sum == SumOfContributions(ForceIds \cup UnknownIds)
        IN  /\ NetForceReturned =
                   Vec(sum.x, RAdd(RMul(Body0.mass, Gravity), sum.y))
            /\ NetForceReturned =
                   calculateNetForce(forces, Body0, Reversed(IdsPassed))

\* an active force, a deactivated one and an unknown id in one call
C16_Witness ==
    /\ NetForceCalled
    /\ ~GravityEnabled
    /\ IdsPassed = <<"push", "lift">>
    /\ ForceIds \subseteq DOMAIN forces
    /\ forces["push"].active /\ forces["push"].magnitude = Rat(10)
    /\ forces["push"].direction = Zero
    /\ ~forces["lift"].active
    /\ Body0.mass = Rat(2)
    /\ NetForceReturned = Vec(Rat(10), Frac(981, 50))

----------------------------------------------------------------------------
(* Friction: a body moving under friction alone, by ForceSystem.applyFriction
   integrated with MotionSystem.integrateEuler, and by
   PhysicsEngine.applyInertia *)

Representable(object) ==
    \A c \in {object.position.x, object.position.y,
               object.velocity.x, object.velocity.y} : c[2] <= MaxDenominator

InitFriction ==
    /\ objects \in {createObject(NoObjects, "test-object", IVec(150, 200),
                                  v, One, Rat(15)).objects :
                         v \in FrictionVelocities}
    /\ motion = NewMotion
    /\ second = NewSecond
    /\ first = NewFirst
    /\ third = NewThird
    /\ forces = NoForces
    /\ browser = NewBrowser
    /\ app = NewApp
    /\ stamps = NoStamps
    /\ calls = 0
    /\ last = NoCall

\* one Integrator step with the force applyFriction returns
FrictionStep ==
    /\ calls < MaxCalls
    /\ \E coefficient \in Coefficients, deltaTime \in DeltaTimes :
           LET object == objects["test-object"]
               r == integrateEuler(motion, object,
                                   applyFriction(object, coefficient), deltaTime)
           IN  /\ objects' = [objects EXCEPT !["test-object"] = r.object]
               /\ last' = Call("frictionStep", <<coefficient, deltaTime>>,
                               objects, r.ret)
    /\ calls' = calls + 1
    /\ UNCHANGED <<motion, second, stamps, sims>>

InertiaStep ==
    /\ calls < MaxCalls
    /\ Representable(objects["test-object"])
    /\ \E friction \in Coefficients :
           /\ objects' = applyInertia(objects, "test-object", friction)
           /\ last' = Call("applyInertia", <<friction>>, objects, <<>>)
    /\ calls' = calls + 1
    /\ UNCHANGED <<motion, second, stamps, sims>>

NextFriction == FrictionStep \/ InertiaStep

SpecFriction == InitFriction /\ [][NextFriction]_vars

\* C14, the half a single step can break: under kinetic friction alone
\* with a coefficient > 0, by applyFriction integrated with the Integrator
\* step or by applyInertia, the speed of a moving body never increases from
\* one step to the next (and it reaches exactly zero in finitely many steps,
\* after which the body stays at rest).
C14_SpeedNeverIncreases ==
    last.op \in {"frictionStep", "applyInertia"} =>
        /\ RLe(Magnitude(Body1.velocity), Magnitude(Body0.velocity))
        /\ Body0.velocity = Vec(Zero, Zero) => Body1.velocity = Vec(Zero, Zero)

----------------------------------------------------------------------------
(* FirstLawSimulator: constructed, then started, paused, reconfigured and
   reset, its requested animation frames running in between *)

InitFirst ==
    /\ objects = createSkatingObject(NoObjects, FirstConfig)
    /\ motion = NewMotion
    /\ second = NewSecond
    /\ first = NewFirst
    /\ third = NewThird
    /\ forces = NoForces
    /\ browser = NewBrowser
    /\ app = NewApp
    /\ stamps = NoStamps
    /\ calls = 0
    /\ last = NoCall

\* what performance.now() can give: a time after the page was loaded, not
\* before the time of the latest frame
Now(m) == {t \in FrameTimes : RGe(t, m.lastTime)}

FirstStart ==
    /\ Representable(objects["skater"])
    /\ \E currentTime \in Now(motion) :
           \E r \in {firstStart(first, motion, objects, browser.frames,
                               currentTime)} :
               /\ first' = r.sim
               /\ motion' = r.motion
               /\ objects' = r.objects
               /\ browser' = [browser EXCEPT !.frames = r.frames]
               /\ last' = Call("firstStart", <<currentTime>>, objects, r.ret)
    /\ UNCHANGED <<second, third, forces, stamps, calls, app>>

\* the page runs a pending callback: it leaves the list and animate() runs
FirstFrame ==
    /\ Representable(objects["skater"])
    /\ \E f \in Pending(browser.frames, "first"), currentTime \in Now(motion) :
           \E r \in {firstAnimate(first, motion, objects, browser.frames \ {f},
                                 currentTime)} :
               /\ first' = r.sim
               /\ motion' = r.motion
               /\ objects' = r.objects
               /\ browser' = [browser EXCEPT !.frames = r.frames]
               /\ last' = Call("firstFrame", <<currentTime>>, objects, r.ret)
    /\ UNCHANGED <<second, third, forces, stamps, calls, app>>

FirstPause ==
    /\ \E r \in {firstPause(first, browser.frames)} :
           /\ first' = r.sim
           /\ browser' = [browser EXCEPT !.frames = r.frames]
    /\ last' = Call("firstPause", <<>>, objects, <<>>)
    /\ UNCHANGED <<objects, motion, second, third, forces, stamps, calls, app>>

FirstReset ==
    /\ \E r \in {firstReset(first, objects, browser.frames)} :
           /\ first' = r.sim
           /\ objects' = r.objects
           /\ browser' = [browser EXCEPT !.frames = r.frames]
    /\ last' = Call("firstReset", <<>>, objects, <<>>)
    /\ UNCHANGED <<motion, second, third, forces, stamps, calls, app>>

FirstStop ==
    /\ \E r \in {firstStop(first, objects, browser.frames)} :
           /\ first' = r.sim
           /\ objects' = r.objects
           /\ browser' = [browser EXCEPT !.frames = r.frames]
    /\ last' = Call("firstStop", <<>>, objects, <<>>)
    /\ UNCHANGED <<motion, second, third, forces, stamps, calls, app>>

FirstUpdateConfigWith(newConfig) ==
    /\ LET r == firstUpdateConfig(first, objects, newConfig)
       IN  /\ first' = r.sim
           /\ objects' = r.objects
    /\ last' = Call("firstUpdateConfig", <<newConfig>>, objects, <<>>)
    /\ UNCHANGED <<motion, second, third, forces, stamps, calls, browser, app>>

FirstUpdateConfig ==
    \/ \E surfaceType \in SurfaceInputs :
           FirstUpdateConfigWith([surfaceType |-> surfaceType])
    \/ \E initialVelocity \in VelocityInputs :
           FirstUpdateConfigWith([initialVelocity |-> initialVelocity])

NextFirst ==
    \/ FirstStart
    \/ FirstFrame
    \/ FirstPause
    \/ FirstReset
    \/ FirstStop
    \/ FirstUpdateConfig

SpecFirst == InitFirst /\ [][NextFirst]_vars

\* start() went on to its first frame, animate()
FirstStarted == last.op = "firstStart" /\ last.ret # <<>>

\* C11, for a simulator: after pause() and then start(), the delta computed
\* for the first frame, the animate() that start() calls, is 0, so that no
\* time spent paused is counted.
C11_FirstFrameAfterStartIsZero ==
    FirstStarted => last.ret[1] = Zero

\* a frame of the first-law simulation that ran update() on the sliding
\* skater, on ice
IceFrame ==
    /\ last.op \in {"firstStart", "firstFrame"}
    /\ last.ret # <<>>
    /\ RGt(last.ret[1], Zero)
    /\ first.config.frictionCoefficient = Frac(1, 100)
    /\ RGe(Magnitude(last.pre["skater"].velocity), One)

\* C15: on ice (coefficient 0.01, gravity 9.81) the speed of the skater
\* decreases by mu * g = 0.0981 per simulated second whatever the speed is,
\* that is by 0.0981 / 60 in each step of 1/60 s (from 10 it is at rest
\* after about 102 s).
C15_ConstantDeceleration ==
    IceFrame =>
        Magnitude(objects["skater"].velocity) =
            RSub(Magnitude(last.pre["skater"].velocity),
                 RMul(RMul(Frac(1, 100), Gravity), TimeStep))

\* a frame of the first-law simulation that ran update(deltaTime) and left
\* the skater moving
MovingFrame ==
    /\ last.op \in {"firstStart", "firstFrame"}
    /\ last.ret # <<>>
    /\ RGt(last.ret[1], Zero)
    /\ objects["skater"].velocity.x # Zero

\* C22, for the first-law simulator: the time step by which the body is
\* advanced in a frame is the clamped delta that updateTime returned for the
\* frame, not a fixed constant: the position advances by the new velocity
\* times that delta.
C22_StepIsFrameDelta ==
    MovingFrame =>
        RSub(objects["skater"].position.x, last.pre["skater"].position.x) =
            RMul(objects["skater"].velocity.x, last.ret[1])

\* the simulator, its clock, its body and the page's callbacks are as they
\* were before the step
FirstUntouched ==
    /\ first' = first
    /\ motion' = motion
    /\ objects' = objects
    /\ browser' = browser

\* C24, for the first-law simulator: over any interleaving of start(),
\* pause(), stop(), reset() and animation-frame callbacks at most one
\* callback is pending at any time; start() while running changes nothing
\* and schedules nothing; pause() while not running changes nothing; after
\* pause() no callback of the simulator is pending.
C24_OnePendingFrame ==
    [][ /\ Cardinality(Pending(browser'.frames, "first")) <= 1
        /\ (last'.op = "firstStart" /\ first.isRunning => FirstUntouched)
        /\ (last'.op = "firstPause" /\ ~first.isRunning => FirstUntouched)
        /\ (last'.op = "firstPause" =>
               Pending(browser'.frames, "first") = {}) ]_vars

\* pause() has just cancelled the request of a simulation whose frames
\* had moved the skater
C24_Witness ==
    /\ last.op = "firstPause"
    /\ ~first.isRunning
    /\ first.animationId = 0
    /\ browser.frames = {}
    /\ RGt(motion.lastTime, Zero)
    /\ RGt(objects["skater"].position.x, Rat(100))

----------------------------------------------------------------------------
(* ThirdLawSimulator: constructed, then started, paused, reconfigured and
   reset, its requested animation frames running in between *)

InitThird ==
    /\ objects = createObjects(NoObjects, ThirdConfig)
    /\ motion = NewMotion
    /\ second = NewSecond
    /\ first = NewFirst
    /\ third = NewThird
    /\ forces = NoForces
    /\ browser = NewBrowser
    /\ app = NewApp
    /\ stamps = NoStamps
    /\ calls = 0
    /\ last = NoCall

BothRepresentable ==
    /\ Representable(objects["object-a"])
    /\ Representable(objects["object-b"])

\* the frames in which the bodies close in on each other, thousands of
\* them, are taken in one step: B is found at one of the places next to A
Approach ==
    /\ objects["object-b"].position = IVec(500, 200)
    /\ \E p \in PositionsB :
           objects' = [objects EXCEPT !["object-b"].position = p]
    /\ last' = Call("approach", <<>>, objects, <<>>)
    /\ UNCHANGED <<motion, second, first, third, forces, stamps, calls,
                 browser, app>>

ThirdStart ==
    /\ BothRepresentable
    /\ \E currentTime \in Now(motion) :
           \E r \in {thirdStart(third, motion, objects, browser.frames,
                               currentTime)} :
               /\ third' = r.sim
               /\ motion' = r.motion
               /\ objects' = r.objects
               /\ browser' = [browser EXCEPT !.frames = r.frames]
               /\ last' = Call("thirdStart", <<currentTime>>, objects, r.ret)
    /\ UNCHANGED <<second, first, forces, stamps, calls, app>>

\* the page runs a pending callback: it leaves the list and animate() runs
ThirdFrame ==
    /\ BothRepresentable
    /\ \E f \in Pending(browser.frames, "third"), currentTime \in Now(motion) :
           \E r \in {thirdAnimate(third, motion, objects, browser.frames \ {f},
                                 currentTime)} :
               /\ third' = r.sim
               /\ motion' = r.motion
               /\ objects' = r.objects
               /\ browser' = [browser EXCEPT !.frames = r.frames]
               /\ last' = Call("thirdFrame", <<currentTime>>, objects, r.ret)
    /\ UNCHANGED <<second, first, forces, stamps, calls, app>>

\* update(deltaTime) called on the simulator, outside a frame
ThirdUpdate ==
    /\ BothRepresentable
    /\ \E deltaTime \in DeltaTimes :
           \E r \in {thirdUpdate(third, objects)} :
               /\ third' = r.sim
               /\ objects' = r.objects
               /\ last' = Call("thirdUpdate", <<deltaTime>>, objects,
                               <<r.steps>>)
    /\ UNCHANGED <<motion, second, first, forces, browser, stamps, calls, app>>

ThirdPause ==
    /\ \E r \in {thirdPause(third, browser.frames)} :
           /\ third' = r.sim
           /\ browser' = [browser EXCEPT !.frames = r.frames]
    /\ last' = Call("thirdPause", <<>>, objects, <<>>)
    /\ UNCHANGED <<objects, motion, second, first, forces, stamps, calls, app>>

ThirdReset ==
    /\ \E r \in {thirdReset(third, objects, browser.frames)} :
           /\ third' = r.sim
           /\ objects' = r.objects
           /\ browser' = [browser EXCEPT !.frames = r.frames]
           /\ last' = Call("thirdReset", <<>>, objects, r.ret)
    /\ UNCHANGED <<motion, second, first, forces, stamps, calls, app>>

ThirdStop ==
    /\ \E r \in {thirdStop(third, objects, browser.frames)} :
           /\ third' = r.sim
           /\ objects' = r.objects
           /\ browser' = [browser EXCEPT !.frames = r.frames]
           /\ last' = Call("thirdStop", <<>>, objects, r.ret)
    /\ UNCHANGED <<motion, second, first, forces, stamps, calls, app>>

ThirdUpdateConfigWith(newConfig) ==
    /\ LET r == thirdUpdateConfig(third, objects, newConfig)
       IN  /\ third' = r.sim
           /\ objects' = r.objects
    /\ last' = Call("thirdUpdateConfig", <<newConfig>>, objects, <<>>)
    /\ UNCHANGED <<motion, second, first, forces, stamps, calls, browser, app>>

ThirdUpdateConfig ==
    \E newConfig \in ThirdConfigInputs : ThirdUpdateConfigWith(newConfig)

NextThird ==
    \/ Approach
    \/ ThirdStart
    \/ ThirdFrame
    \/ ThirdUpdate
    \/ ThirdPause
    \/ ThirdReset
    \/ ThirdStop
    \/ ThirdUpdateConfig

SpecThird == InitThird /\ [][NextThird]_vars

\* a frame of the collision simulation ran: animate(), from start() or as
\* the requested frame
ThirdFrameRan == last.op \in {"thirdStart", "thirdFrame"} /\ last.ret # <<>>

FrameDelta == last.ret[1]

FrameSteps == last.ret[2]

\* where in the frame the step was taken
Places(step) == {i \in 1..Len(FrameSteps) : FrameSteps[i] = step}

Taken(step) == Places(step) # {}

\* every a of the frame came before every b of the frame
Precedes(a, b) == \A i \in Places(a), j \in Places(b) : i < j

Integrations == {"applyInertia object-a", "applyInertia object-b"}

Clamps == {"applyBoundaries object-a", "applyBoundaries object-b"}

\* C20 as stated: in every frame the clamped delta is computed, then all
\* bodies are integrated, then the collision predicate is checked, then the
\* collision is resolved (if newly detected), then the boundary clamp is
\* applied; the integration of both bodies precedes the collision check.
C20_IntegrateThenCheck ==
    ThirdFrameRan =>
        /\ FrameSteps[1] = "updateTime"
        /\ Taken("checkCollision") => \A s \in Integrations : Taken(s)
        /\ \A s \in Integrations : Precedes(s, "checkCollision")
        /\ Precedes("checkCollision", "applyThirdLaw")
        /\ \A c \in Clamps : Precedes("applyThirdLaw", c)
                               /\ Precedes("checkCollision", c)

\* C20, amended: in every frame the clamped delta is computed first; when
\* it is 0 nothing else is done; otherwise the collision predicate is
\* checked, then the collision is resolved if it was found and none was
\* flagged, and only then, and only when no collision is flagged (not in
\* this frame either), object-a and then object-b are advanced by
\* applyInertia, each followed at once by its own boundary clamp.  The
\* collision check of a frame precedes its integration, and a frame that
\* resolves a collision integrates nothing.
C20_CheckThenIntegrate ==
    ThirdFrameRan =>
        /\ FrameSteps[1] = "updateTime"
        /\ RLe(FrameDelta, Zero) =>
               FrameSteps = <<"updateTime">> /\ objects = last.pre
        /\ RGt(FrameDelta, Zero) =>
               /\ FrameSteps[2] = "checkCollision"
               /\ Places("checkCollision") = {2}
               /\ Taken("applyThirdLaw") =>
                      /\ Places("applyThirdLaw") = {3}
                      /\ checkCollision(last.pre, "object-a", "object-b")
                      /\ third.collisionOccurred
                      /\ objects = applyThirdLaw(last.pre, "object-a", "object-b",
                                                 third.config.collisionType).objects
               /\ IF third.collisionOccurred
                  THEN \A s \in Integrations \cup Clamps : ~Taken(s)
                  ELSE /\ ~Taken("applyThirdLaw")
                       /\ SubSeq(FrameSteps, 3, Len(FrameSteps)) = InertiaSteps
                       /\ objects # last.pre

\* a frame that found no collision and advanced both bodies
C20_Witness ==
    /\ ThirdFrameRan
    /\ FrameSteps = <<"updateTime", "checkCollision">> \o InertiaSteps
    /\ objects["object-a"].position.x = RAdd(Rat(200), Frac(5999, 72000))

\* update() ran, in a frame or called by itself
UpdateRan ==
    \/ last.op = "thirdUpdate"
    \/ ThirdFrameRan /\ RGt(FrameDelta, Zero)

\* the steps of that update()
UpdateSteps == IF last.op = "thirdUpdate" THEN last.ret[1] ELSE FrameSteps

\* update() called handleCollision, which calls applyThirdLaw
Resolved ==
    UpdateRan /\ \E i \in DOMAIN UpdateSteps : UpdateSteps[i] = "applyThirdLaw"

\* start() of a simulator that was not running, or reset() (stop() calls it)
Restarted ==
    \/ last.op \in {"thirdReset", "thirdStop"}
    \/ last.op = "thirdStart" /\ last.ret # <<>>

\* C21: between one start()/reset() and the next, collision resolution
\* (handleCollision / applyThirdLaw) runs at most once over any sequence of
\* frames: an update() that resolves sets collisionOccurred, only start()
\* and reset() clear it, and while it is set no update() resolves a
\* collision, even if the bodies overlap.
C21_ResolvedAtMostOnce ==
    [][/\ Resolved' => third'.collisionOccurred
       /\ third.collisionOccurred =>
              \/ Restarted'
              \/ third'.collisionOccurred /\ ~Resolved']_vars

\* an update() found the bodies overlapping with the flag already set, and
\* resolved nothing
C21_Witness ==
    /\ UpdateRan
    /\ checkCollision(last.pre, "object-a", "object-b")
    /\ third.collisionOccurred
    /\ ~Resolved

\* both bodies are where they were before the step, with the velocities
\* they had
BodiesUntouched ==
    \A id \in {"object-a", "object-b"} :
        /\ objects'[id].position = objects[id].position
        /\ objects'[id].velocity = objects[id].velocity

\* C27: once collisionOccurred is true, every update() leaves the positions
\* and the velocities of both bodies unchanged, no integration being
\* applied, until reset() or start() clears the flag: the velocities that
\* applyThirdLaw computed never move the bodies while the flag is set.
C27_FrozenAfterCollision ==
    [][third.collisionOccurred /\ UpdateRan' /\ ~Restarted'
           => BodiesUntouched /\ third'.collisionOccurred]_vars

\* update() ran with the flag set, on bodies that the collision had left
\* with a velocity
C27_Witness ==
    /\ UpdateRan
    /\ ~Restarted
    /\ third.collisionOccurred
    /\ ~Resolved
    /\ last.pre = objects
    /\ \E id \in {"object-a", "object-b"} :
           objects[id].velocity # Vec(Zero, Zero)

\* C26, for the third-law simulator: the animation loop never stops on its
\* own: while isRunning is true, every animation-frame callback has ended
\* by requesting the next one, so a callback of the simulator is pending
\* until pause(), stop() or reset() is called.
C26_LoopKeepsRunning ==
    third.isRunning => Pending(browser.frames, "third") # {}

----------------------------------------------------------------------------
(* NewtonLawsApp: the page constructs the application, whose init() builds
   the panels and the three simulators; then the first-law simulation is
   run and the panels are refreshed *)

InitApp ==
    /\ objects = NoObjects
    /\ motion = NewMotion
    /\ second = NewSecond
    /\ first = NewFirst
    /\ third = NewThird
    /\ forces = NoForces
    /\ browser = NewBrowser
    /\ app = NewApp
    /\ stamps = NoStamps
    /\ calls = 0
    /\ last = NoCall

\* new NewtonLawsApp(), on DOMContentLoaded
AppInit ==
    /\ ~app.constructed
    /\ \E r \in {init(app, objects)} :
           /\ app' = r.app
           /\ objects' = r.objects
    /\ first' = NewFirst
    /\ second' = NewSecond
    /\ third' = NewThird
    /\ motion' = NewMotion
    /\ last' = Call("init", <<>>, objects, <<>>)
    /\ UNCHANGED <<forces, browser, stamps, calls>>

\* app.updatePanelInfo(law)
UpdatePanelInfo ==
    /\ app.constructed
    /\ HasObject(objects, "skater") => Representable(objects["skater"])
    /\ \E law \in Laws :
           \E info \in {getInfo(law, objects, first, second, third)},
              stats \in {getStats(law, objects, second)} :
               /\ app' = updatePanelInfo(app, law, info, stats)
               /\ last' = Call("updatePanelInfo", <<law>>, objects,
                               <<info, stats>>)
    /\ UNCHANGED <<objects, motion, second, first, third, forces, browser,
                   stamps, calls>>

\* the first-law simulator of the registry is driven
AppFirst ==
    /\ "first" \in app.simulators
    /\ NextFirst

NextApp == AppInit \/ UpdatePanelInfo \/ AppFirst

SpecApp == InitApp /\ [][NextApp]_vars

\* init() has run, to its end or to its catch block
InitRan == app.constructed

\* C25: application start-up completes: after NewtonLawsApp.init has run,
\* isInitialized is true, the registry holds exactly 'first', 'second' and
\* 'third', and the control callbacks are registered, the construction of
\* ThirdLawSimulator raising no error.
C25_StartUpCompletes ==
    InitRan =>
        /\ app.isInitialized
        /\ app.simulators = Laws
        /\ app.callbacks = ControlCallbacks
        /\ "error" \notin {app.notifications[i] :
                              i \in DOMAIN app.notifications}

\* updatePanelInfo(law) has just run for a law with a simulator
PanelInfoUpdated ==
    /\ last.op = "updatePanelInfo"
    /\ last.args[1] \in app.simulators

\* the key of the panel that setupInfoPanels creates for a law
PanelOf(law) ==
    IF law = "first" THEN "first-law"
    ELSE IF law = "second" THEN "second-law"
    ELSE "third-law"

\* the values a panel holds include those of info
Holds(values, info) ==
    \A k \in DOMAIN info : k \in DOMAIN values /\ values[k] = info[k]

\* C30: after updatePanelInfo(law) for a law with a simulator, the panel
\* registered for the law holds the values its getInfo() returned, the
\* key passed by the caller is one that setupInfoPanels created, and the
\* bar chart of the first law shows getEnergyStats().kinetic in its
\* kinetic bar.
C30_PanelHoldsInfo ==
    PanelInfoUpdated =>
        /\ last.args[1] \in DOMAIN app.panelSystem.panels
        /\ last.ret[1] # <<>> =>
               Holds(app.panelSystem.panels[PanelOf(last.args[1])].values,
                     last.ret[1][1])
        /\ last.args[1] = "first" =>
               LET values == app.panelSystem.panels["first-law"].
                                 charts["energy-chart"].values
               IN  /\ "kinetic" \in DOMAIN values
                   /\ values.kinetic = last.ret[2].kinetic

----------------------------------------------------------------------------
(* SecondLawSimulator: constructed, then reconfigured, advanced frame by
   frame and reset *)

InitSecond ==
    /\ objects = createTestObject(NoObjects, SecondConfig)
    /\ motion = NewMotion
    /\ second = NewSecond
    /\ first = NewFirst
    /\ third = NewThird
    /\ forces = NoForces
    /\ browser = NewBrowser
    /\ app = NewApp
    /\ stamps = NoStamps
    /\ calls = 0
    /\ last = NoCall

SecondUpdateConfigWith(newConfig) ==
    /\ LET r == secondUpdateConfig(second, objects, newConfig)
       IN  /\ second' = r.sim
           /\ objects' = r.objects
    /\ last' = Call("updateConfig", <<newConfig>>, objects, <<>>)
    /\ UNCHANGED <<motion, stamps, calls, sims>>

SecondUpdateConfig ==
    \/ \E m \in MassInputs :
           SecondUpdateConfigWith([objectMass |-> m])
    \/ \E f \in ForceInputs :
           SecondUpdateConfigWith([appliedForce |-> f])
    \/ \E d \in DirectionInputs :
           SecondUpdateConfigWith([forceDirection |-> d])

SecondUpdate ==
    /\ calls < MaxCalls
    /\ LET r == secondUpdate(second, objects)
       IN  /\ second' = r.sim
           /\ objects' = r.objects
           /\ last' = Call("update", <<>>, objects, r.ret)
    /\ calls' = calls + 1
    /\ UNCHANGED <<motion, stamps, sims>>

SecondReset ==
    /\ LET r == secondReset(second, objects)
       IN  /\ second' = r.sim
           /\ objects' = r.objects
    /\ last' = Call("reset", <<>>, objects, <<>>)
    /\ calls' = 0
    /\ UNCHANGED <<motion, stamps, sims>>

NextSecond == SecondUpdateConfig \/ SecondUpdate \/ SecondReset

SpecSecond == InitSecond /\ [][NextSecond]_vars

----------------------------------------------------------------------------
(* SecondLawSimulator.applyTemporaryForce: temporary forces are applied
   while the clock advances and the page fires the timers that are due *)

ApplyTemporaryForce ==
    /\ Cardinality(browser.timers) < MaxTimers
    /\ \E magnitude \in Magnitudes, direction \in Directions,
          duration \in TimeoutInputs :
           \E r \in {applyTemporaryForce(forces, browser.timers,
                                         [magnitude |-> magnitude,
                                          direction |-> direction],
                                         duration, browser.now)} :
               /\ forces' = r.forces
               /\ browser' = [browser EXCEPT !.timers = r.timers]
               /\ last' = Call("applyTemporaryForce", <<direction, duration>>,
                               objects, <<>>)
    /\ UNCHANGED <<objects, motion, second, first, third, stamps, calls, app>>

\* the page runs the callback of a timer that is due
TimerFires ==
    /\ \E t \in browser.timers :
           /\ t.due <= browser.now
           /\ forces' = deactivateForce(forces, t.forceId)
           /\ browser' = [browser EXCEPT !.timers = @ \ {t}]
           /\ last' = Call("timer", <<t.due>>, objects, <<>>)
    /\ UNCHANGED <<objects, motion, second, first, third, stamps, calls, app>>

NextTimer == Tick \/ ApplyTemporaryForce \/ TimerFires

SpecTimer == InitSecond /\ [][NextTimer]_vars

\* C29: after applyTemporaryForce(force, duration) the 'temp-force' entry
\* of the registry is active until the duration timer fires, and inactive
\* once it has fired: when the last pending timer has just fired, the entry
\* has active = false.
C29_InactiveOnceTimerFired ==
    last.op = "timer" /\ browser.timers = {}
        => ~forces["temp-force"].active

----------------------------------------------------------------------------
(* MotionSystem's clock: updateTime, pause, resume and setTimeScale in any
   order, with any of the timestamps *)

InitTime == InitThirdLaw

\* the history after an updateTime(currentTime) call
Stamped(g, paused, currentTime) ==
    IF paused THEN [g EXCEPT !.called = TRUE]
    ELSE [called |-> TRUE, prev |-> <<currentTime>>, fresh |-> FALSE]

UpdateTime ==
    /\ \E currentTime \in Timestamps :
           LET r == updateTime(motion, currentTime)
           IN  /\ motion' = r.motion
               /\ last' = Call("updateTime", <<currentTime>>, objects, r.ret)
               /\ stamps' = [before |-> stamps.now,
                             now |-> Stamped(stamps.now, motion.isPaused,
                                             currentTime)]
    /\ UNCHANGED <<objects, second, calls, sims>>

Pause ==
    /\ motion' = pause(motion)
    /\ last' = Call("pause", <<>>, objects, <<>>)
    /\ stamps' = [before |-> stamps.now, now |-> stamps.now]
    /\ UNCHANGED <<objects, second, calls, sims>>

Resume ==
    /\ motion' = resume(motion)
    /\ last' = Call("resume", <<>>, objects, <<>>)
    /\ stamps' = [before |-> stamps.now,
                  now |-> [stamps.now EXCEPT !.fresh = TRUE]]
    /\ UNCHANGED <<objects, second, calls, sims>>

SetTimeScale ==
    /\ \E scale \in ScaleInputs \cup NonFiniteInputs :
           /\ motion' = setTimeScale(motion, scale)
           /\ last' = Call("setTimeScale", <<scale>>, objects, <<>>)
    /\ stamps' = [before |-> stamps.now, now |-> stamps.now]
    /\ UNCHANGED <<objects, second, calls, sims>>

NextTime == UpdateTime \/ Pause \/ Resume \/ SetTimeScale

SpecTime == InitTime /\ [][NextTime]_vars

----------------------------------------------------------------------------
(* What the claims about masses and integration speak of *)

\* C7: every body has mass > 0 in every reachable state, and no frame
\* advances a body whose mass is not positive: a mass <= 0 given to
\* createObject or to updateConfig is rejected.
C7_MassAlwaysPositive ==
    /\ \A id \in DOMAIN objects : RGt(objects[id].mass, Zero)
    /\ (last.op = "update" /\ HasObject(last.pre, "test-object")) =>
           RGt(last.pre["test-object"].mass, Zero)

\* C17: after SecondLawSimulator.update the step has returned
\* currentForce / mass and the acceleration that getInfo reports, read from
\* the body's acceleration field, is that vector.
C17_AccelerationStored ==
    (last.op = "update" /\ HasObject(last.pre, "test-object")) =>
        LET a == Vec(RDiv(second.currentForce.x, last.pre["test-object"].mass),
                     RDiv(second.currentForce.y, last.pre["test-object"].mass))
            info == secondGetInfo(second, objects)[1]
        IN  /\ last.ret = <<a>>
            /\ objects["test-object"].acceleration = a
            /\ info.acceleration.x = a.x
            /\ info.acceleration.y = a.y

\* the centre of a body is at least its radius away from each wall
Contained(body) ==
    /\ RLe(body.radius, body.position.x)
    /\ RLe(body.position.x, RSub(Rat(CanvasWidth), body.radius))
    /\ RLe(body.radius, body.position.y)
    /\ RLe(body.position.y, RSub(Rat(CanvasHeight), body.radius))

\* a body that fits in the canvas: its radius is at most half of each
\* dimension
Fits(body) ==
    /\ RLe(RMul(Rat(2), body.radius), Rat(CanvasWidth))
    /\ RLe(RMul(Rat(2), body.radius), Rat(CanvasHeight))

\* C28, for applySecondLaw as update() of the second-law simulator calls it:
\* after the call the centre of a body that fits in the canvas satisfies
\* radius <= x <= 800 - radius and radius <= y <= 400 - radius, whatever
\* the velocity and the applied force are.
C28_Containment ==
    last.op = "update" /\ Fits(objects["test-object"])
        => Contained(objects["test-object"])

Stepped ==
    /\ last.op \in {"integrateEuler", "applySecondLaw"}
    /\ HasObject(last.pre, "test-object")

ForcePassed == last.args[1]

\* the step the operation integrates over: deltaTime * timeScale in
\* integrateEuler, the fixed timeStep in applySecondLaw
StepTaken ==
    IF last.op = "integrateEuler" THEN RMul(last.args[2], motion.timeScale)
    ELSE TimeStep

\* velocity + (F / m) * dt
AdvancedVelocity(body, force, dt) ==
    Vec(RAdd(body.velocity.x, RMul(RDiv(force.x, body.mass), dt)),
        RAdd(body.velocity.y, RMul(RDiv(force.y, body.mass), dt)))

\* position + (velocity + (F / m) * dt) * dt
SemiImplicit(body, force, dt) ==
    Vec(RAdd(body.position.x, RMul(AdvancedVelocity(body, force, dt).x, dt)),
        RAdd(body.position.y, RMul(AdvancedVelocity(body, force, dt).y, dt)))

Expected == SemiImplicit(Body0, ForcePassed, StepTaken)

ExpectedVelocity == AdvancedVelocity(Body0, ForcePassed, StepTaken)

\* a coordinate that leaves the circle of this radius inside 0 .. limit
Inside(p, radius, limit) == RLe(radius, p) /\ RLe(p, RSub(limit, radius))

\* C8 as stated: after integrateEuler and after applySecondLaw, for every
\* input, position' = position + (velocity + (F/m)*dt)*dt.
C8_SemiImplicitForEveryInput ==
    Stepped => Body1.position = Expected

\* C8, amended: integrateEuler leaves velocity + (F/m)*dt and
\* position + (velocity + (F/m)*dt)*dt for every input (dt = deltaTime *
\* timeScale); applySecondLaw (dt = timeStep) leaves them on every axis on
\* which that position keeps the body inside the canvas, and on the other
\* axes applyBoundaries puts the body one radius from a wall.
C8_SemiImplicitUnlessClamped ==
    /\ (Stepped /\ last.op = "integrateEuler") =>
           /\ Body1.position = Expected
           /\ Body1.velocity = ExpectedVelocity
    /\ (Stepped /\ last.op = "applySecondLaw") =>
           /\ IF Inside(Expected.x, Body0.radius, Rat(CanvasWidth))
              THEN /\ Body1.position.x = Expected.x
                   /\ Body1.velocity.x = ExpectedVelocity.x
              ELSE Body1.position.x \in
                       {Body0.radius, RSub(Rat(CanvasWidth), Body0.radius)}
           /\ IF Inside(Expected.y, Body0.radius, Rat(CanvasHeight))
              THEN /\ Body1.position.y = Expected.y
                   /\ Body1.velocity.y = ExpectedVelocity.y
              ELSE Body1.position.y \in
                       {Body0.radius, RSub(Rat(CanvasHeight), Body0.radius)}

\* a moving body advanced by applySecondLaw in the open, under a force
C8_Witness ==
    /\ Stepped
    /\ last.op = "applySecondLaw"
    /\ Body0.velocity # Vec(Zero, Zero)
    /\ Body1.velocity # Body0.velocity
    /\ Body1.position = Expected
    /\ Body1.position # Vec(RAdd(Body0.position.x, RMul(Body0.velocity.x, TimeStep)),
                            RAdd(Body0.position.y, RMul(Body0.velocity.y, TimeStep)))

\* scenario 2: integrateEuler at time scale 1 on a body of mass 1 at rest,
\* net force (20, 0), dt = 1
ScenarioTwo ==
    /\ Stepped
    /\ last.op = "integrateEuler"
    /\ motion.timeScale = One
    /\ Body0.mass = One
    /\ Body0.velocity = Vec(Zero, Zero)
    /\ ForcePassed = IVec(20, 0)
    /\ last.args[2] = One

\* the distance the body advanced along x and along y
Advance == Vec(RSub(Body1.position.x, Body0.position.x),
               RSub(Body1.position.y, Body0.position.y))

\* C9 as stated: scenario 2 yields acceleration (20, 0), velocity (20, 0)
\* and a position advance of 10 units along x.
C9_ScenarioTwoAdvancesTen ==
    ScenarioTwo =>
        /\ last.ret = <<IVec(20, 0)>>
        /\ Body1.velocity = IVec(20, 0)
        /\ Advance = IVec(10, 0)

\* C9, amended: scenario 2 yields acceleration (20, 0), velocity (20, 0)
\* and a position advance of 20 units along x (the new velocity times dt).
C9_ScenarioTwoAdvancesTwenty ==
    ScenarioTwo =>
        /\ last.ret = <<IVec(20, 0)>>
        /\ Body1.acceleration = IVec(20, 0)
        /\ Body1.velocity = IVec(20, 0)
        /\ Advance = IVec(20, 0)

C9_Witness ==
    /\ ScenarioTwo
    /\ Body0.position = IVec(150, 200)
    /\ Body1.position = IVec(170, 200)

----------------------------------------------------------------------------
(* What the claims about the clock speak of *)

TimeUpdated == last.op = "updateTime"

TimePassed == last.args[1]

DeltaReturned == last.ret[1]

\* what was known of earlier updateTime calls when the last one was made
Earlier == stamps.before

ClampedDelta(currentTime, previous) ==
    RMin(RDiv(RSub(currentTime, previous), Rat(1000)), Frac(1, 10))

DeltaInRange ==
    /\ RLe(DeltaReturned, Frac(1, 10))
    /\ (Earlier.prev # <<>> /\ RGe(TimePassed, Earlier.prev[1])) =>
           RGe(DeltaReturned, Zero)

\* C10 as stated: updateTime returns 0 on the very first call after
\* construction and on every call made while paused, and on every other
\* call min((currentTime - previous timestamp)/1000, 0.1); no delta exceeds
\* 0.1 and, for non-decreasing timestamps, none is negative.
C10_ZeroOnlyFirstOrPaused ==
    TimeUpdated =>
        /\ IF ~Earlier.called \/ motion.isPaused
           THEN DeltaReturned = Zero
           ELSE Earlier.prev # <<>> =>
                    DeltaReturned = ClampedDelta(TimePassed, Earlier.prev[1])
        /\ DeltaInRange

\* C10, amended: updateTime returns 0 on every call made while paused and
\* on every call that finds no stored timestamp: the first call made while
\* not paused after construction or after resume(), and a call that follows
\* one made with timestamp 0 (lastTime = 0 marks "no timestamp"); on every
\* other call it returns min((currentTime - previous timestamp)/1000, 0.1)
\* and stores currentTime; no delta exceeds 0.1 and, for non-decreasing
\* timestamps, none is negative.
C10_ZeroWithoutStoredTimestamp ==
    TimeUpdated =>
        /\ IF motion.isPaused \/ Earlier.fresh \/ Earlier.prev = <<Zero>>
           THEN DeltaReturned = Zero
           ELSE DeltaReturned = ClampedDelta(TimePassed, Earlier.prev[1])
        /\ ~motion.isPaused => motion.lastTime = TimePassed
        /\ DeltaInRange

\* C12: after any setTimeScale calls with any Numbers, timeScale lies in
\* [0.1, 5.0]: an argument in the range is stored as given, any other is
\* replaced by the nearest end of the range.
C12_TimeScaleInRange ==
    /\ RLe(Frac(1, 10), motion.timeScale)
    /\ RLe(motion.timeScale, Rat(5))
    /\ last.op = "setTimeScale" =>
           motion.timeScale =
               IF RLt(last.args[1], Frac(1, 10)) THEN Frac(1, 10)
               ELSE IF RGt(last.args[1], Rat(5)) THEN Rat(5)
               ELSE last.args[1]

\* a frame that came 150 ms after the one before it and was cut to 0.1 s
C10_Witness ==
    /\ TimeUpdated
    /\ ~motion.isPaused
    /\ ~Earlier.fresh
    /\ Earlier.prev = <<Rat(50)>>
    /\ TimePassed = Rat(200)
    /\ DeltaReturned = Frac(1, 10)

============================================================================
